---- MODULE Spec2Model ----
(***************************************************************************)
(* A model of desmeds: the CoaddSrc class (coaddsrc.py), which resolves a  *)
(* campaign, queries the catalog for the single-epoch sources of a tile and *)
(* derives their file paths, and the DESMEDSMaker classes (maker.py), which *)
(* build the object and image tables of a MEDS file.                        *)
(*                                                                          *)
(* Strings the code takes apart are modelled by their parts: a directory is *)
(* the sequence of its '/'-separated segments, a file name the sequence of  *)
(* the tokens the code substitutes, a campaign name its characters (Spell). *)
(* A full path is a record [dir, name].  A python exception is an outcome   *)
(* "raised" together with the exception's class name.                       *)
(***************************************************************************)
EXTENDS Integers, Sequences, FiniteSets, TLC

\* ------------------------------------------------------------------ bounds
\* rows the catalog holds for the tile and band
MaxRows == 3
\* segments of a directory handed to _extract_alt_dir directly
MaxSegs == 3
\* calls of get_info on one instance
MaxCalls == 2
\* detections in the coadd catalog; their numbers are drawn from 1..MaxObj
MaxObj == 3
\* largest box size a configuration names
MaxBox == 3
\* largest bounding-box extent (max - min) of a detection
MaxExt == 2
\* largest radius behind a sigma size
MaxRad == 3

VARIABLES
    pc,                 \* position of the CoaddSrc caller
    campaign,           \* self['campaign']
    piff_campaign,      \* self['piff_campaign'], PiffNone when None or no key
    finalcut_campaign,  \* self['finalcut_campaign'], Unset when no key
    zp_table,           \* self['zp_table'], Unset when no key
    catalog,            \* the rows the catalog holds for the tile and band
    piffdb,             \* the model-file catalog
    queried,            \* what the last _do_query returned
    sorted,             \* what the last _sort_list returned
    cut,                \* the drop count _do_query printed, -1 when none
    template,           \* the query template the last _do_query filled in
    cache,              \* self._info_list: [has, list]
    outcome,            \* of the last call: "none", "returned" or "raised"
    ret,                \* the list the last call returned
    err,                \* the class of the exception the last call raised
    err_val,            \* the value the exception's message names
    ncalls,             \* get_info calls made so far
    nqueries,           \* _do_query runs made so far
    sort_in,            \* argument of a direct _sort_list call
    alt_path,           \* arguments of a direct _extract_alt_dir call
    alt_type,
    mk_pc,              \* position of the maker in go(), or of a direct call
    variant,            \* "db": DESMEDSMaker, "desdm": DESMEDSMakerDESDM
    do_inputs,          \* self.do_inputs
    do_meds,            \* self.do_meds
    conf,               \* min_box_size, max_box_size, allowed_box_sizes
    cat_file,           \* the detections of the coadd catalog, in file order
    coadd_cat,          \* self.coadd_cat
    lookup,             \* the rows the identity query returns, in its order
    obj_data,           \* self.obj_data: [set, number, box_size, id, radec]
    stubby,             \* the stubby MEDS file at its final path
    meds_file,          \* the MEDS file at its final path
    mk_err,             \* the class of the exception that ended go()
    box_out,            \* what a direct _get_box_sizes call returned
    use_astro_refine,   \* self['use_astro_refine']
    cf_srclist,         \* self.cf.srclist as the catalog or the file lists give it
    image_info,         \* self.image_info
    temps,              \* the staged temporary files that exist
    conn,               \* self.conn: [opens, open]
    phases,             \* the steps of go() that have completed, in order
    faults,             \* the external calls that fail in this invocation
    flists,             \* the lines of the ngwint, bkg and seg file lists
    line_in,            \* argument of a direct _extract_ngwint_line call
    fl_out              \* what a direct _load_srclist or _extract_ngwint_line
                        \* call returned or raised

srcvars == <<pc, campaign, piff_campaign, finalcut_campaign, zp_table, catalog,
             piffdb, queried, sorted, cut, template, cache, outcome, ret, err, err_val,
             ncalls, nqueries, sort_in, alt_path, alt_type>>

\* what the maker is given and never assigns
mkin == <<variant, do_inputs, do_meds, conf, use_astro_refine, cat_file, lookup,
          cf_srclist, faults, flists, line_in>>

mkvars == <<mk_pc, mkin, coadd_cat, obj_data, stubby, meds_file, mk_err, box_out,
            image_info, temps, conn, phases, fl_out>>

\* ------------------------------------------------------------ small helpers
Last(s) == s[Len(s)]

Front(s) == SubSeq(s, 1, Len(s) - 1)

Range(s) == {s[i] : i \in DOMAIN s}

\* the sequences over S of length at most n
SeqsUpTo(S, n) == UNION {[1..k -> S] : k \in 0..n}

\* the permutations of 1..n
Perms(n) == {p \in [1..n -> 1..n] : \A i, j \in 1..n : i # j => p[i] # p[j]}

Unset == "<unset>"

\* no file at a path; sections counts the extensions the file holds
NoFile == [exists |-> FALSE, obj |-> <<>>, sections |-> 0]

NoObjData == [set |-> FALSE, number |-> <<>>, box_size |-> <<>>, id |-> <<>>, radec |-> FALSE]

\* no connection was opened
NoConn == [opens |-> 0, open |-> FALSE]

PiffNone == "None"

\* ---------------------------------------------------------------- campaigns
SupportedCampaigns ==
    {"Y3A1_COADD", "Y3A2_COADD", "Y5A1_COADD", "Y3A2_COSMOS_COADD_TRUTH_V4",
     "Y6A1_COADD", "Y6A2_COADD", "DR3_1", "DR3_2", "DR3", "SEXB_COADD",
     "NGC55_COADD_V4", "LEO_CAND", "NGC300_COADD", "IC5152_COADD",
     "NGC3109_COADD"}

\* campaign values no branch of _set_finalcut_campaign names
OtherCampaigns == {"Y1A1_COADD", "Y6A3_COADD", "DR3_3"}

Campaigns == SupportedCampaigns \cup OtherCampaigns

\* the characters of a campaign name
Spell(c) ==
    CASE c = "Y3A1_COADD" -> <<"Y", "3", "A", "1", "_", "C", "O", "A", "D", "D">>
      [] c = "Y3A2_COADD" -> <<"Y", "3", "A", "2", "_", "C", "O", "A", "D", "D">>
      [] c = "Y5A1_COADD" -> <<"Y", "5", "A", "1", "_", "C", "O", "A", "D", "D">>
      [] c = "Y3A2_COSMOS_COADD_TRUTH_V4" -> <<"Y", "3", "A", "2", "_", "C", "O", "S", "M", "O", "S", "_", "C", "O", "A", "D", "D", "_", "T", "R", "U", "T", "H", "_", "V", "4">>
      [] c = "Y6A1_COADD" -> <<"Y", "6", "A", "1", "_", "C", "O", "A", "D", "D">>
      [] c = "Y6A2_COADD" -> <<"Y", "6", "A", "2", "_", "C", "O", "A", "D", "D">>
      [] c = "DR3_1" -> <<"D", "R", "3", "_", "1">>
      [] c = "DR3_2" -> <<"D", "R", "3", "_", "2">>
      [] c = "DR3" -> <<"D", "R", "3">>
      [] c = "SEXB_COADD" -> <<"S", "E", "X", "B", "_", "C", "O", "A", "D", "D">>
      [] c = "NGC55_COADD_V4" -> <<"N", "G", "C", "5", "5", "_", "C", "O", "A", "D", "D", "_", "V", "4">>
      [] c = "LEO_CAND" -> <<"L", "E", "O", "_", "C", "A", "N", "D">>
      [] c = "NGC300_COADD" -> <<"N", "G", "C", "3", "0", "0", "_", "C", "O", "A", "D", "D">>
      [] c = "IC5152_COADD" -> <<"I", "C", "5", "1", "5", "2", "_", "C", "O", "A", "D", "D">>
      [] c = "NGC3109_COADD" -> <<"N", "G", "C", "3", "1", "0", "9", "_", "C", "O", "A", "D", "D">>
      [] c = "Y1A1_COADD" -> <<"Y", "1", "A", "1", "_", "C", "O", "A", "D", "D">>
      [] c = "Y6A3_COADD" -> <<"Y", "6", "A", "3", "_", "C", "O", "A", "D", "D">>
      [] c = "DR3_3" -> <<"D", "R", "3", "_", "3">>

\* python's  tag in c  for strings: tag occurs in c as a substring
Contains(c, tag) ==
    \E i \in 1..(Len(Spell(c)) - Len(tag) + 1) :
        SubSeq(Spell(c), i, i + Len(tag) - 1) = tag

\* _set_finalcut_campaign as one missing branch would leave it: DR3 unknown
SetFinalcutCampaignNoDR3(c) ==
    CASE c \in {"Y3A1_COADD", "Y3A2_COADD"} ->
            [ok |-> TRUE, finalcut |-> "Y3A1_FINALCUT", zp |-> Unset]
      [] c = "Y5A1_COADD" ->
            [ok |-> TRUE, finalcut |-> "Y5A1_FINALCUT", zp |-> Unset]
      [] c = "Y3A2_COSMOS_COADD_TRUTH_V4" ->
            [ok |-> TRUE, finalcut |-> "COSMOS_COADD_TRUTH", zp |-> Unset]
      [] c \in {"Y6A2_COADD", "Y6A1_COADD"} ->
            [ok |-> TRUE, finalcut |-> "Y6A1_COADD_INPUT", zp |-> Unset]
      [] c = "DR3_1" ->
            [ok |-> TRUE, finalcut |-> "DECADE_FINALCUT", zp |-> "decade_refcat2_13_1"]
      [] c = "DR3_2" ->
            [ok |-> TRUE, finalcut |-> "DECADE_FINALCUT", zp |-> "des_decade_refcat2_14_0"]
      [] c = "SEXB_COADD" ->
            [ok |-> TRUE, finalcut |-> "DECADE_FINALCUT", zp |-> "NAN NAN NAN"]
      [] c = "NGC55_COADD_V4" ->
            [ok |-> TRUE, finalcut |-> "NGC55_finalcut", zp |-> "decade_zps_ngc55_20230209"]
      [] c = "LEO_CAND" ->
            [ok |-> TRUE, finalcut |-> "DECADE_FINALCUT", zp |-> "leo_refcat2_zps"]
      [] c = "NGC300_COADD" ->
            [ok |-> TRUE, finalcut |-> "DECADE_FINALCUT", zp |-> "ngc300_zps_20230906"]
      [] c = "IC5152_COADD" ->
            [ok |-> TRUE, finalcut |-> "DECADE_FINALCUT", zp |-> "ic5152_zps_20230906"]
      [] c = "NGC3109_COADD" ->
            [ok |-> TRUE, finalcut |-> "DECADE_FINALCUT", zp |-> "decade_refcat2_13_1"]
      [] OTHER ->
            [ok |-> FALSE, finalcut |-> Unset, zp |-> Unset]

\* _set_finalcut_campaign: the keys it sets, or ok = FALSE where it raises
SetFinalcutCampaign(c) ==
    CASE c \in {"Y3A1_COADD", "Y3A2_COADD"} ->
            [ok |-> TRUE, finalcut |-> "Y3A1_FINALCUT", zp |-> Unset]
      [] c = "Y5A1_COADD" ->
            [ok |-> TRUE, finalcut |-> "Y5A1_FINALCUT", zp |-> Unset]
      [] c = "Y3A2_COSMOS_COADD_TRUTH_V4" ->
            [ok |-> TRUE, finalcut |-> "COSMOS_COADD_TRUTH", zp |-> Unset]
      [] c \in {"Y6A2_COADD", "Y6A1_COADD"} ->
            [ok |-> TRUE, finalcut |-> "Y6A1_COADD_INPUT", zp |-> Unset]
      [] c = "DR3_1" ->
            [ok |-> TRUE, finalcut |-> "DECADE_FINALCUT", zp |-> "decade_refcat2_13_1"]
      [] c = "DR3_2" ->
            [ok |-> TRUE, finalcut |-> "DECADE_FINALCUT", zp |-> "des_decade_refcat2_14_0"]
      [] c = "DR3" ->
            [ok |-> TRUE, finalcut |-> "DECADE_FINALCUT", zp |-> "NAN NAN NAN"]
      [] c = "SEXB_COADD" ->
            [ok |-> TRUE, finalcut |-> "DECADE_FINALCUT", zp |-> "NAN NAN NAN"]
      [] c = "NGC55_COADD_V4" ->
            [ok |-> TRUE, finalcut |-> "NGC55_finalcut", zp |-> "decade_zps_ngc55_20230209"]
      [] c = "LEO_CAND" ->
            [ok |-> TRUE, finalcut |-> "DECADE_FINALCUT", zp |-> "leo_refcat2_zps"]
      [] c = "NGC300_COADD" ->
            [ok |-> TRUE, finalcut |-> "DECADE_FINALCUT", zp |-> "ngc300_zps_20230906"]
      [] c = "IC5152_COADD" ->
            [ok |-> TRUE, finalcut |-> "DECADE_FINALCUT", zp |-> "ic5152_zps_20230906"]
      [] c = "NGC3109_COADD" ->
            [ok |-> TRUE, finalcut |-> "DECADE_FINALCUT", zp |-> "decade_refcat2_13_1"]
      [] OTHER ->
            [ok |-> FALSE, finalcut |-> Unset, zp |-> Unset]

\* ------------------------------------------------------------ source records
Band == "r"

ExpNums == {2, 21}

CcdNums == {1, 11}

\* base image directories the catalog may hold (fai.path)
PathPool == {<<"OPS", "red", "immask">>, <<"OPS", "red", "bkg">>, <<"OPS", "immask">>}

NoPath == [dir |-> <<>>, name |-> <<>>]

\* the part of an image file name before 'immasked.fits'
Stem(e, c) ==
    CASE e = 2 /\ c = 1 -> "D2_c1_"
      [] e = 2 /\ c = 11 -> "D2_c11_"
      [] e = 21 /\ c = 1 -> "D21_c1_"
      [] e = 21 /\ c = 11 -> "D21_c11_"
      [] OTHER -> "D_"

FileName(e, c) == <<Stem(e, c), "immasked.fits">>

\* the dict _do_query builds from one row of the cursor; the keys the later
\* steps add (piff_path, image_path, ...) are NoPath until they are set
Row(e, c, p) ==
    [expnum |-> e, ccdnum |-> c, filename |-> FileName(e, c),
     compression |-> ".fz", path |-> p, band |-> Band,
     piff_path |-> NoPath, image_path |-> NoPath, bkg_path |-> NoPath,
     seg_path |-> NoPath, psf_path |-> NoPath]

RowPool == {Row(e, c, p) : e \in ExpNums, c \in CcdNums, p \in PathPool}

\* (expnum, ccdnum) unique within one query result
DistinctPairs(S) ==
    \A r1, r2 \in S : (r1.expnum = r2.expnum /\ r1.ccdnum = r2.ccdnum) => r1 = r2

Catalogs == {S \in SUBSET RowPool : Cardinality(S) <= MaxRows /\ DistinctPairs(S)}

\* ------------------------------------------------------------------ _sort_list
RECURSIVE Digits(_)
\* the number of decimal digits of n > 0
Digits(n) == IF n < 10 THEN 1 ELSE 1 + Digits(n \div 10)

RECURSIVE Pow10(_)
Pow10(k) == IF k = 0 THEN 1 ELSE 10 * Pow10(k - 1)

\* "%s%s" % (expnum, ccdnum): the decimal string, held as the number it spells
HashStr(e, c) == e * Pow10(Digits(c)) + c

\* hashlib.md5(s).hexdigest() of the decimal string of h; the first seven hex
\* digits of the digest, which order the digests of the strings listed here
\* exactly as the full digests do
Md5(h) ==
    CASE h = 21 -> 63282624
      [] h = 211 -> 246506354
      [] h = 2111 -> 27304579

\* the digest _sort_list computes for one record
HashOf(info) == Md5(HashStr(info.expnum, info.ccdnum))

\* the index array that leaves the list as it came
ArgSortsIdentity(keys) == {[i \in 1..Len(keys) |-> i]}

\* numpy.argsort(hashes): the index arrays that put the digests in ascending
\* order.  The default kind is not stable, so equal digests may come out in
\* either order.
ArgSorts(keys) ==
    {p \in Perms(Len(keys)) :
        \A i \in 1..(Len(keys) - 1) : keys[p[i]] <= keys[p[i + 1]]}

\* the lists _sort_list may return for info_list
SortList(info_list) ==
    {[i \in 1..Len(info_list) |-> info_list[p[i]]] :
        p \in ArgSorts([i \in 1..Len(info_list) |-> HashOf(info_list[i])])}

\* ------------------------------------------------------------------- _do_query
\* 'order by filename'; image file names sort as (expnum, ccdnum) do
FileLe(r1, r2) ==
    \/ r1.expnum < r2.expnum
    \/ r1.expnum = r2.expnum /\ r1.ccdnum <= r2.ccdnum

\* the rows of the cursor, in the order the query asks for
QueryRows(cat) ==
    CHOOSE s \in [1..Cardinality(cat) -> cat] :
        /\ Range(s) = cat
        /\ \A i \in 1..(Cardinality(cat) - 1) : FileLe(s[i], s[i + 1])

PiffDir == <<"OPS", "Y6A1_PIFF", "psf">>

PiffFile(e, c) == <<Stem(e, c), "piff-model.fits">>

\* one row of the model-file query: redfile, filename, path, band, expnum, ccdnum
PiffEntry(e, c, b) ==
    [im |-> FileName(e, c), piff |-> PiffFile(e, c), path |-> PiffDir,
     band |-> b, expnum |-> e, ccdnum |-> c]

PiffPool == {PiffEntry(2, 1, "r"), PiffEntry(21, 1, "r"), PiffEntry(21, 11, "r"),
             PiffEntry(2, 11, "i")}

\* the model-file query: the entries whose redfile is one of imgs
PiffQuery(info_list, pdb) ==
    {e \in pdb : \E i \in DOMAIN info_list : info_list[i].filename = e.im}

KeyOfInfo(info) == <<info.filename, info.band, info.expnum, info.ccdnum>>

KeyOfEntry(e) == <<e.im, e.band, e.expnum, e.ccdnum>>

\* key in piff_map
InPiffMap(key, entries) == \E e \in entries : KeyOfEntry(e) = key

\* os.path.join(piff_map[key][0], piff_map[key][1])
PiffPathOf(key, entries) ==
    LET e == CHOOSE x \in entries : KeyOfEntry(x) = key
    IN  [dir |-> e.path, name |-> e.piff]

RECURSIVE PiffLoopReversed(_, _, _, _)
\* the loop with each kept record put in front of the list, not at its end
PiffLoopReversed(info_list, entries, i, acc) ==
    IF i > Len(info_list) THEN acc
    ELSE IF InPiffMap(KeyOfInfo(info_list[i]), entries)
         THEN PiffLoopReversed(info_list, entries, i + 1,
                  [acc EXCEPT !.list =
                      <<[info_list[i] EXCEPT !.piff_path =
                          PiffPathOf(KeyOfInfo(info_list[i]), entries)]>> \o @])
         ELSE PiffLoopReversed(info_list, entries, i + 1, [acc EXCEPT !.cut = @ + 1])

RECURSIVE PiffLoop(_, _, _, _)
\* the loop over info_list that keeps the records with a model file
PiffLoop(info_list, entries, i, acc) ==
    IF i > Len(info_list) THEN acc
    ELSE IF InPiffMap(KeyOfInfo(info_list[i]), entries)
         THEN PiffLoop(info_list, entries, i + 1,
                  [acc EXCEPT !.list = Append(@,
                      [info_list[i] EXCEPT !.piff_path =
                          PiffPathOf(KeyOfInfo(info_list[i]), entries)])])
         ELSE PiffLoop(info_list, entries, i + 1, [acc EXCEPT !.cut = @ + 1])

\* every template referencing zp_table
TemplateParamsAllZp(t) == {"tilename", "band", "campaign", "finalcut_campaign", "zp_table"}

\* the keys a query template takes from self: its %(key)s conversions
TemplateParams(t) ==
    CASE t \in {"_QUERY_COADD_SRC_BYTILE_DECADE", "_QUERY_COADD_SRC_BYTILE_DELVE_DEEP"} ->
            {"tilename", "band", "campaign", "finalcut_campaign", "zp_table"}
      [] t = "_QUERY_COADD_SRC_BYTILE_DECADE_DR3" ->
            {"tilename", "band", "finalcut_campaign"}
      [] t \in {"_QUERY_COADD_SRC_BYTILE_DELVE_DEEP_SEXTANSB", "_QUERY_COADD_SRC_BYTILE_Y5",
                "_QUERY_COADD_SRC_BYTILE_Y3", "_QUERY_COADD_SRC_BYTILE_Y3A2_COSMOS"} ->
            {"tilename", "band", "campaign", "finalcut_campaign"}

\* the rules with the test for 'DR3' put before the one for 'DR3_1', 'DR3_2'
QueryTemplateDR3First(camp) ==
    IF Contains(camp, <<"Y", "5">>) \/ Contains(camp, <<"Y", "6">>)
    THEN "_QUERY_COADD_SRC_BYTILE_Y5"
    ELSE IF Contains(camp, <<"C", "O", "S", "M", "O", "S">>)
    THEN "_QUERY_COADD_SRC_BYTILE_Y3A2_COSMOS"
    ELSE IF Contains(camp, <<"D", "R", "3">>)
    THEN "_QUERY_COADD_SRC_BYTILE_DECADE_DR3"
    ELSE IF camp \in {"NGC55_COADD_V4", "LEO_CAND", "NGC300_COADD", "IC5152_COADD",
                      "NGC3109_COADD"}
    THEN "_QUERY_COADD_SRC_BYTILE_DELVE_DEEP"
    ELSE IF camp \in {"SEXB_COADD"}
    THEN "_QUERY_COADD_SRC_BYTILE_DELVE_DEEP_SEXTANSB"
    ELSE "_QUERY_COADD_SRC_BYTILE_Y3"

\* the query template _do_query fills in: the first rule that matches
QueryTemplate(camp) ==
    IF Contains(camp, <<"Y", "5">>) \/ Contains(camp, <<"Y", "6">>)
    THEN "_QUERY_COADD_SRC_BYTILE_Y5"
    ELSE IF Contains(camp, <<"C", "O", "S", "M", "O", "S">>)
    THEN "_QUERY_COADD_SRC_BYTILE_Y3A2_COSMOS"
    ELSE IF Contains(camp, <<"D", "R", "3", "_", "1">>)
            \/ Contains(camp, <<"D", "R", "3", "_", "2">>)
    THEN "_QUERY_COADD_SRC_BYTILE_DECADE"
    ELSE IF Contains(camp, <<"D", "R", "3">>)
    THEN "_QUERY_COADD_SRC_BYTILE_DECADE_DR3"
    ELSE IF camp \in {"NGC55_COADD_V4", "LEO_CAND", "NGC300_COADD", "IC5152_COADD",
                      "NGC3109_COADD"}
    THEN "_QUERY_COADD_SRC_BYTILE_DELVE_DEEP"
    ELSE IF camp \in {"SEXB_COADD"}
    THEN "_QUERY_COADD_SRC_BYTILE_DELVE_DEEP_SEXTANSB"
    ELSE "_QUERY_COADD_SRC_BYTILE_Y3"

\* the guard of the model-file cross-reference
PiffGuard(camp, piff) == Contains(camp, <<"Y", "6">>) /\ piff # PiffNone

\* _do_query: the list it returns and the drop count it prints (-1: none)
DoQuery(camp, piff, cat, pdb) ==
    IF PiffGuard(camp, piff)
    THEN PiffLoop(QueryRows(cat), PiffQuery(QueryRows(cat), pdb), 1,
                  [list |-> <<>>, cut |-> 0])
    ELSE [list |-> QueryRows(cat), cut |-> -1]

\* ------------------------------------------------------------ path derivation
Kinds == {"bkg", "seg", "psf", "piff"}

Good(p) == [ok |-> TRUE, path |-> p, err |-> ""]

Raise(e) == [ok |-> FALSE, path |-> <<>>, err |-> e]

\* _extract_alt_dir with seg and psf substituted at the level of the marker
ExtractAltDirSameLevel(path, type) ==
    IF type = "piff" THEN Good(path)
    ELSE IF Last(path) # "immask" THEN Raise("AssertionError")
    ELSE IF type \in {"bkg", "seg", "psf"} THEN Good([path EXCEPT ![Len(path)] = type])
    ELSE Good(path)

\* _extract_alt_dir without the check of the marker
ExtractAltDirNoMarker(path, type) ==
    IF type = "piff" THEN Good(path)
    ELSE IF type = "bkg" THEN Good([path EXCEPT ![Len(path)] = type])
    ELSE IF type \in {"seg", "psf"}
         THEN IF Len(path) = 1 THEN Raise("IndexError")
              ELSE IF Last(Front(path)) # "red" THEN Raise("AssertionError")
              ELSE Good([Front(path) EXCEPT ![Len(path) - 1] = type])
    ELSE Good(path)

\* _extract_alt_dir(path, type); path is path.split('/')
ExtractAltDir(path, type) ==
    IF type = "piff" THEN Good(path)
    ELSE IF Last(path) # "immask" THEN Raise("AssertionError")
    ELSE IF type = "bkg" THEN Good([path EXCEPT ![Len(path)] = type])
    ELSE IF type \in {"seg", "psf"}
         THEN IF Len(path) = 1 THEN Raise("IndexError")
              ELSE IF Last(Front(path)) # "red" THEN Raise("AssertionError")
              ELSE Good([Front(path) EXCEPT ![Len(path) - 1] = type])
    ELSE Good(path)

\* Coadd._get_dirs(path, type): the local directory under $DESDATA, moved to
\* the sibling directory of the kind when a type is given
GetDirs(path, type) ==
    IF type = "image" THEN Good(<<"$DESDATA">> \o path)
    ELSE ExtractAltDir(<<"$DESDATA">> \o path, type)

\* _get_all_dirs: the directories in the order the code derives them; the
\* first failure is the one raised
GetAllDirs(info, piff) ==
    LET image == GetDirs(info.path, "image")
        seg == GetDirs(info.path, "seg")
        bkg == GetDirs(info.path, "bkg")
        psf == GetDirs(info.path, "psf")
        none == [ok |-> FALSE, err |-> "", image |-> <<>>, seg |-> <<>>,
                 bkg |-> <<>>, psf |-> <<>>, piff |-> <<>>]
    IN  IF ~seg.ok THEN [none EXCEPT !.err = seg.err]
        ELSE IF ~bkg.ok THEN [none EXCEPT !.err = bkg.err]
        ELSE IF ~psf.ok THEN [none EXCEPT !.err = psf.err]
        ELSE IF piff = PiffNone
             THEN [none EXCEPT !.ok = TRUE, !.image = image.path, !.seg = seg.path,
                               !.bkg = bkg.path, !.psf = psf.path]
        ELSE IF info.piff_path = NoPath THEN [none EXCEPT !.err = "KeyError"]
        ELSE IF ~GetDirs(info.piff_path.dir, "piff").ok
             THEN [none EXCEPT !.err = GetDirs(info.piff_path.dir, "piff").err]
        ELSE [none EXCEPT !.ok = TRUE, !.image = image.path, !.seg = seg.path,
                          !.bkg = bkg.path, !.psf = psf.path,
                          !.piff = GetDirs(info.piff_path.dir, "piff").path]

\* a replace that leaves the name as it is
ReplaceNothing(name, old, new) == name

\* str.replace(old, new) on a file name held as tokens
Replace(name, old, new) ==
    [i \in DOMAIN name |-> IF name[i] = old THEN new ELSE name[i]]

\* the body of the loop of _add_full_paths for one record
AddFullPathsRow(info, piff) ==
    LET d == GetAllDirs(info, piff)
    IN  IF ~d.ok THEN [ok |-> FALSE, err |-> d.err, info |-> info]
        ELSE [ok |-> TRUE, err |-> "", info |->
                [info EXCEPT
                    !.image_path = [dir |-> d.image,
                                    name |-> info.filename \o <<info.compression>>],
                    !.bkg_path = [dir |-> d.bkg,
                                  name |-> Replace(info.filename, "immasked.fits", "bkg.fits")
                                           \o <<info.compression>>],
                    !.seg_path = [dir |-> d.seg,
                                  name |-> Replace(info.filename, "immasked.fits", "segmap.fits")
                                           \o <<info.compression>>],
                    !.psf_path = [dir |-> d.psf,
                                  name |-> Replace(info.filename, "immasked.fits", "psfexcat.psf")],
                    !.piff_path = IF piff = PiffNone THEN info.piff_path
                                  ELSE [dir |-> d.piff, name |-> info.piff_path.name]]]

\* _add_full_paths: the list with the paths added, or the first failure
AddFullPaths(info_list, piff) ==
    IF \A i \in DOMAIN info_list : AddFullPathsRow(info_list[i], piff).ok
    THEN [ok |-> TRUE, err |-> "",
          list |-> [i \in DOMAIN info_list |-> AddFullPathsRow(info_list[i], piff).info]]
    ELSE [ok |-> FALSE, list |-> <<>>,
          err |-> AddFullPathsRow(info_list[
                      CHOOSE i \in DOMAIN info_list :
                          /\ ~AddFullPathsRow(info_list[i], piff).ok
                          /\ \A j \in 1..(i - 1) : AddFullPathsRow(info_list[j], piff).ok],
                      piff).err]

\* --------------------------------------------------------- CoaddSrc: actions
NoCache == [has |-> FALSE, list |-> <<>>]

\* the model-file catalog is read only under PiffGuard
PiffDbs(camp, piff) == IF PiffGuard(camp, piff) THEN SUBSET PiffPool ELSE {{}}

\* a CoaddSrc about to be constructed, with the catalogs it will query
InitInstance ==
    /\ pc = "new"
    /\ campaign \in Campaigns
    /\ piff_campaign \in {PiffNone, "Y6A1_PIFF"}
    /\ catalog \in Catalogs
    /\ piffdb \in PiffDbs(campaign, piff_campaign)
    /\ sort_in = <<>>
    /\ alt_path = <<>>
    /\ alt_type = ""

\* a direct call of _sort_list(info_list) on a constructed instance
InitSortCall ==
    /\ pc = "call_sort"
    /\ campaign = "Y3A1_COADD"
    /\ piff_campaign = PiffNone
    /\ catalog = {}
    /\ piffdb = {}
    /\ sort_in \in {s \in SeqsUpTo({Row(e, c, <<"OPS", "red", "immask">>) :
                                        e \in ExpNums, c \in CcdNums}, MaxRows) :
                        \A i, j \in DOMAIN s : i # j => s[i] # s[j]}
    /\ alt_path = <<>>
    /\ alt_type = ""

\* a direct call of _extract_alt_dir(path, type) on a constructed instance
InitAltCall ==
    /\ pc = "call_alt"
    /\ campaign = "Y3A1_COADD"
    /\ piff_campaign = PiffNone
    /\ catalog = {}
    /\ piffdb = {}
    /\ sort_in = <<>>
    /\ alt_path \in SeqsUpTo({"OPS", "red", "immask", "bkg"}, MaxSegs) \ {<<>>}
    /\ alt_type \in Kinds

\* no file lists are given and no call on them was made
FlistIdle ==
    /\ flists = [ngwint |-> <<>>, bkg |-> <<>>, seg |-> <<>>]
    /\ line_in = <<>>
    /\ fl_out = [ok |-> TRUE, val |-> <<>>, err |-> ""]

\* nothing of go() has run: no source list, no files staged, no connection
GoIdle ==
    /\ use_astro_refine = FALSE
    /\ cf_srclist = <<>>
    /\ image_info = <<>>
    /\ temps = {}
    /\ conn = NoConn
    /\ phases = <<>>
    /\ faults = {}
    /\ FlistIdle

\* no maker runs beside the CoaddSrc
MakerIdle ==
    /\ mk_pc = "idle"
    /\ variant = "db"
    /\ do_inputs = FALSE
    /\ do_meds = FALSE
    /\ conf = [min |-> 0, max |-> 0, allowed |-> <<>>]
    /\ cat_file = <<>>
    /\ coadd_cat = <<>>
    /\ lookup = <<>>
    /\ obj_data = NoObjData
    /\ stubby = NoFile
    /\ meds_file = NoFile
    /\ mk_err = ""
    /\ box_out = [ok |-> TRUE, sizes |-> <<>>, err |-> ""]
    /\ GoIdle

Init ==
    /\ MakerIdle
    /\ InitInstance \/ InitSortCall \/ InitAltCall
    /\ finalcut_campaign = Unset
    /\ zp_table = Unset
    /\ queried = <<>>
    /\ sorted = <<>>
    /\ cut = -1
    /\ template = ""
    /\ cache = NoCache
    /\ outcome = "none"
    /\ ret = <<>>
    /\ err = ""
    /\ err_val = ""
    /\ ncalls = 0
    /\ nqueries = 0

\* CoaddSrc.__init__: _set_finalcut_campaign on the campaign given
Construct ==
    /\ pc = "new"
    /\ IF SetFinalcutCampaign(campaign).ok
       THEN /\ pc' = "ready"
            /\ finalcut_campaign' = SetFinalcutCampaign(campaign).finalcut
            /\ zp_table' = SetFinalcutCampaign(campaign).zp
            /\ UNCHANGED <<outcome, err, err_val>>
       ELSE /\ pc' = "ctor_failed"
            /\ outcome' = "raised"
            /\ err' = "ValueError"
            /\ err_val' = campaign
            /\ UNCHANGED <<finalcut_campaign, zp_table>>
    /\ UNCHANGED <<campaign, piff_campaign, catalog, piffdb, queried, sorted, cut,
                   cache, ret, ncalls, sort_in, alt_path, alt_type, template, nqueries>>
    /\ UNCHANGED mkvars

\* _info_list set before the paths are added, whether they can be or not
InfoListCacheEarly(old, added) == [has |-> TRUE, list |-> added.list]

\* self._info_list after get_info ran the three steps: set to the list when
\* _add_full_paths returned, left as it was when a step raised
InfoListCache(old, added) ==
    IF added.ok THEN [has |-> TRUE, list |-> added.list] ELSE old

\* get_info with _info_list set: the cached list is returned
GetInfoCached ==
    /\ pc = "ready"
    /\ ncalls < MaxCalls
    /\ cache.has
    /\ ncalls' = ncalls + 1
    /\ outcome' = "returned"
    /\ ret' = cache.list
    /\ err' = ""
    /\ UNCHANGED <<pc, campaign, piff_campaign, finalcut_campaign, zp_table, catalog,
                   piffdb, queried, sorted, cut, cache, err_val, sort_in, alt_path,
                   alt_type, template, nqueries>>
    /\ UNCHANGED mkvars

\* get_info without _info_list: _do_query, _sort_list, _add_full_paths, and
\* the list is kept in _info_list when all three went through
GetInfoQuery ==
    /\ pc = "ready"
    /\ ncalls < MaxCalls
    /\ ~cache.has
    /\ ncalls' = ncalls + 1
    /\ nqueries' = nqueries + 1
    /\ queried' = DoQuery(campaign, piff_campaign, catalog, piffdb).list
    /\ cut' = DoQuery(campaign, piff_campaign, catalog, piffdb).cut
    /\ template' = QueryTemplate(campaign)
    /\ sorted' \in SortList(queried')
    /\ cache' = InfoListCache(cache, AddFullPaths(sorted', piff_campaign))
    /\ IF AddFullPaths(sorted', piff_campaign).ok
       THEN /\ outcome' = "returned"
            /\ ret' = AddFullPaths(sorted', piff_campaign).list
            /\ err' = ""
       ELSE /\ outcome' = "raised"
            /\ ret' = <<>>
            /\ err' = AddFullPaths(sorted', piff_campaign).err
    /\ UNCHANGED <<pc, campaign, piff_campaign, finalcut_campaign, zp_table, catalog,
                   piffdb, err_val, sort_in, alt_path, alt_type>>
    /\ UNCHANGED mkvars

\* the direct call _sort_list(sort_in)
SortListCall ==
    /\ pc = "call_sort"
    /\ pc' = "sort_returned"
    /\ sorted' \in SortList(sort_in)
    /\ outcome' = "returned"
    /\ UNCHANGED <<campaign, piff_campaign, finalcut_campaign, zp_table, catalog,
                   piffdb, queried, cut, cache, ret, err, err_val, ncalls, sort_in,
                   alt_path, alt_type, template, nqueries>>
    /\ UNCHANGED mkvars

\* the direct call _extract_alt_dir(alt_path, alt_type); the directory it
\* returns is left in ret
ExtractAltDirCall ==
    /\ pc = "call_alt"
    /\ pc' = "alt_returned"
    /\ outcome' = IF ExtractAltDir(alt_path, alt_type).ok THEN "returned" ELSE "raised"
    /\ ret' = ExtractAltDir(alt_path, alt_type).path
    /\ err' = ExtractAltDir(alt_path, alt_type).err
    /\ UNCHANGED <<campaign, piff_campaign, finalcut_campaign, zp_table, catalog,
                   piffdb, queried, sorted, cut, cache, err_val, ncalls, sort_in,
                   alt_path, alt_type, template, nqueries>>
    /\ UNCHANGED mkvars

Next ==
    \/ Construct
    \/ GetInfoCached
    \/ GetInfoQuery
    \/ SortListCall
    \/ ExtractAltDirCall

vars == <<srcvars, mkvars>>

Spec == Init /\ [][Next]_vars

\* ------------------------------------------------------------ claims C1 - C6
\* a get_info call has run its query on this instance
Queried == pc = "ready" /\ ncalls > 0

\* C1: constructing a CoaddSrc succeeds and sets finalcut_campaign exactly
\* when campaign is one of the fifteen fixed identifiers; for every other
\* value construction fails with an error that names the value, and no
\* finalcut_campaign is set.
C1_ConstructionDecided ==
    pc \in {"ready", "ctor_failed"} =>
        /\ pc = "ready" <=>
              campaign \in {"Y3A1_COADD", "Y3A2_COADD", "Y5A1_COADD",
                            "Y3A2_COSMOS_COADD_TRUTH_V4", "Y6A1_COADD", "Y6A2_COADD",
                            "DR3_1", "DR3_2", "DR3", "SEXB_COADD", "NGC55_COADD_V4",
                            "LEO_CAND", "NGC300_COADD", "IC5152_COADD", "NGC3109_COADD"}
        /\ pc = "ready" => finalcut_campaign # Unset /\ err_val = ""
        /\ pc = "ctor_failed" =>
              /\ outcome = "raised"
              /\ err = "ValueError"
              /\ err_val = campaign
              /\ finalcut_campaign = Unset

C1_Witness == pc = "ctor_failed" /\ err_val = "DR3_3" /\ finalcut_campaign = Unset

\* C2: for every list of records with pairwise distinct (expnum, ccdnum) and
\* every permutation of it, _sort_list returns the records in the same order.
C2_SortOrderIndependent ==
    pc = "sort_returned" =>
        \A p \in Perms(Len(sort_in)) :
            \A other \in SortList([i \in DOMAIN sort_in |-> sort_in[p[i]]]) :
                other = sorted

\* C3: with piff_campaign configured get_info performs the model-file
\* cross-reference for every supported campaign: the drop count is reported,
\* every record returned carries the piff_path of its catalog entry, and the
\* derivation of the piff directory does not fail.
C3_PiffAlwaysCrossReferenced ==
    (Queried /\ piff_campaign # PiffNone) =>
        /\ cut >= 0
        /\ err # "KeyError"
        /\ outcome = "returned" =>
              \A i \in DOMAIN ret :
                  \E e \in piffdb :
                      /\ KeyOfEntry(e) = KeyOfInfo(ret[i])
                      /\ ret[i].piff_path.name = e.piff

\* the indices of the candidates whose key has an entry in the model-file catalog
C4_Kept ==
    {i \in 1..Cardinality(catalog) :
        \E e \in piffdb : <<e.im, e.band, e.expnum, e.ccdnum>> =
            <<QueryRows(catalog)[i].filename, QueryRows(catalog)[i].band,
              QueryRows(catalog)[i].expnum, QueryRows(catalog)[i].ccdnum>>}

\* C4: in the cross-reference the surviving list is exactly the subsequence
\* of the candidates, in their order, whose key (filename, band, expnum,
\* ccdnum) has an entry in the model-file catalog; each survivor gains the
\* piff_path of its entry; the drop count is candidates minus survivors (10
\* candidates with 2 unmatched give 8 records and a drop count of 2).
C4_PiffSubsequence ==
    (Queried /\ cut >= 0) =>
        /\ Len(queried) = Cardinality(C4_Kept)
        /\ cut = Cardinality(catalog) - Len(queried)
        /\ \A k \in DOMAIN queried :
              LET i == CHOOSE x \in C4_Kept : Cardinality({j \in C4_Kept : j < x}) = k - 1
                  e == CHOOSE x \in piffdb :
                           /\ x.im = QueryRows(catalog)[i].filename
                           /\ x.band = QueryRows(catalog)[i].band
                           /\ x.expnum = QueryRows(catalog)[i].expnum
                           /\ x.ccdnum = QueryRows(catalog)[i].ccdnum
              IN  queried[k] = [QueryRows(catalog)[i] EXCEPT
                                    !.piff_path = [dir |-> e.path, name |-> e.piff]]
        /\ LET cands == [i \in 1..10 |-> Row(i, 1, <<"OPS", "red", "immask">>)]
               out == PiffLoop(cands, {PiffEntry(i, 1, Band) : i \in 1..8}, 1,
                               [list |-> <<>>, cut |-> 0])
           IN  Len(out.list) = 8 /\ out.cut = 2

C4_Witness == Queried /\ cut = 1 /\ Len(queried) = 2 /\ Cardinality(piffdb) = 4

\* C5 as claimed: for a directory whose last segment is 'immask',
\* _extract_alt_dir succeeds for the bkg, seg and psf kinds and returns a
\* path ending in the kind's own marker.
C5_EveryKindSucceeds ==
    (pc = "alt_returned" /\ Last(alt_path) = "immask" /\ alt_type \in {"bkg", "seg", "psf"}) =>
        outcome = "returned" /\ Last(ret) = alt_type

\* C5, amended: for a directory whose last segment is 'immask',
\* _extract_alt_dir succeeds for the bkg kind with the last segment replaced
\* by 'bkg'; for the seg and psf kinds it succeeds exactly when the segment
\* before 'immask' is 'red', and then returns the parent directory with 'red'
\* replaced by the kind; otherwise it raises.
C5_SiblingSubstitution ==
    (pc = "alt_returned" /\ Last(alt_path) = "immask") =>
        /\ alt_type = "bkg" =>
              outcome = "returned" /\ ret = Front(alt_path) \o <<"bkg">>
        /\ alt_type \in {"seg", "psf"} =>
              /\ outcome = "returned" <=>
                    (Len(alt_path) >= 2 /\ alt_path[Len(alt_path) - 1] = "red")
              /\ outcome = "returned" =>
                    ret = Front(Front(alt_path)) \o <<alt_type>>
              /\ outcome = "raised" => err \in {"AssertionError", "IndexError"}

C5_Witness ==
    /\ pc = "alt_returned"
    /\ alt_path = <<"OPS", "red", "immask">>
    /\ alt_type = "seg"
    /\ ret = <<"OPS", "seg">>

\* C6 as claimed: for a directory whose last segment is not 'immask' the
\* derivation fails for every kind, the piff kind included, and get_info
\* returns no list.
C6_EveryKindFails ==
    /\ (pc = "alt_returned" /\ Last(alt_path) # "immask") => outcome = "raised"
    /\ (Queried /\ \E i \in DOMAIN sorted : Last(sorted[i].path) # "immask") =>
           outcome = "raised" /\ ret = <<>> /\ ~cache.has

\* C6, amended: for a directory whose last segment is not 'immask'
\* _extract_alt_dir raises for the bkg, seg and psf kinds, and returns the
\* directory unchanged, unchecked, for the piff kind; a get_info call whose
\* query returns a record with such a base directory raises, returns no list
\* and keeps nothing in _info_list.
C6_MarkerCheckedButForPiff ==
    /\ (pc = "alt_returned" /\ Last(alt_path) # "immask") =>
           /\ alt_type \in {"bkg", "seg", "psf"} =>
                  outcome = "raised" /\ err = "AssertionError"
           /\ alt_type = "piff" => outcome = "returned" /\ ret = alt_path
    /\ (Queried /\ \E i \in DOMAIN sorted : Last(sorted[i].path) # "immask") =>
           outcome = "raised" /\ ret = <<>> /\ ~cache.has

C6_Witness ==
    /\ Queried
    /\ outcome = "raised"
    /\ Len(sorted) = 2
    /\ Last(sorted[1].path) = "immask"
    /\ Last(sorted[2].path) # "immask"

\* ------------------------------------------------------ maker: _get_box_sizes
Max2(a, b) == IF a >= b THEN a ELSE b

Min2(a, b) == IF a <= b THEN a ELSE b

\* ndarray.clip(lo, hi): minimum(maximum(x, lo), hi)
Clip(x, lo, hi) == Min2(Max2(x, lo), hi)

\* the members of S in ascending order
Ascending(S) ==
    CHOOSE s \in [1..Cardinality(S) -> S] :
        \A i \in 1..(Cardinality(S) - 1) : s[i] < s[i + 1]

\* min_box_size, max_box_size and an ascending allowed_box_sizes
Confs ==
    {[min |-> a, max |-> b, allowed |-> Ascending(S)] :
        a \in 0..MaxBox, b \in 1..MaxBox, S \in SUBSET (1..MaxBox)}

\* one row of the coadd catalog: its number, the extents ymax_image -
\* ymin_image and xmax_image - xmin_image of its bounding box, and the sigma
\* size _get_sigma_size gives it, twice an integer radius
Detection(n, r, c, k) == [number |-> n, row_ext |-> r, col_ext |-> c, sigma_size |-> 2 * k]

Detections == {Detection(1, r, c, k) : r \in 0..MaxExt, c \in 0..MaxExt, k \in (-1)..MaxRad}

\* bins without max_box_size appended as the last edge
BinsNoMax(c) ==
    <<0>> \o SelectSeq(c.allowed, LAMBDA sze : sze >= c.min /\ sze <= c.max)

\* bins: 0, the allowed sizes within [min_box_size, max_box_size], and
\* max_box_size as the last edge
Bins(c) ==
    IF Last(<<0>> \o SelectSeq(c.allowed, LAMBDA sze : sze >= c.min /\ sze <= c.max)) # c.max
    THEN Append(<<0>> \o SelectSeq(c.allowed, LAMBDA sze : sze >= c.min /\ sze <= c.max), c.max)
    ELSE <<0>> \o SelectSeq(c.allowed, LAMBDA sze : sze >= c.min /\ sze <= c.max)

\* numpy.digitize(x, bins) with right=False: bins[i-1] <= x < bins[i]
DigitizeLeft(x, bins) == Cardinality({i \in DOMAIN bins : bins[i] <= x})

\* numpy.digitize(x, bins, right=True) for increasing bins: the 0-based index
\* i with bins[i-1] < x <= bins[i]
Digitize(x, bins) == Cardinality({i \in DOMAIN bins : bins[i] < x})

\* max of col_size, row_size and sigma_size, clipped to the range
BoxCandidate(c, d) ==
    Clip(Max2(Max2(d.col_ext + 1, d.row_ext + 1), d.sigma_size), c.min, c.max)

\* _get_box_sizes: bins[bin_inds] over the catalog; digitize raises
\* ValueError for bins that are not monotonic, and an index past the last
\* bin raises IndexError
GetBoxSizes(c, cat) ==
    IF \E i \in 1..(Len(Bins(c)) - 1) : Bins(c)[i] >= Bins(c)[i + 1]
    THEN [ok |-> FALSE, sizes |-> <<>>, err |-> "ValueError"]
    ELSE IF \E i \in DOMAIN cat : Digitize(BoxCandidate(c, cat[i]), Bins(c)) >= Len(Bins(c))
    THEN [ok |-> FALSE, sizes |-> <<>>, err |-> "IndexError"]
    ELSE [ok |-> TRUE, err |-> "",
          sizes |-> [i \in DOMAIN cat |->
                        Bins(c)[Digitize(BoxCandidate(c, cat[i]), Bins(c)) + 1]]]

\* no CoaddSrc runs beside the maker
SrcIdle ==
    /\ pc = "idle"
    /\ campaign = "Y3A1_COADD"
    /\ piff_campaign = PiffNone
    /\ finalcut_campaign = Unset
    /\ zp_table = Unset
    /\ catalog = {}
    /\ piffdb = {}
    /\ queried = <<>>
    /\ sorted = <<>>
    /\ cut = -1
    /\ template = ""
    /\ cache = NoCache
    /\ outcome = "none"
    /\ ret = <<>>
    /\ err = ""
    /\ err_val = ""
    /\ ncalls = 0
    /\ nqueries = 0
    /\ sort_in = <<>>
    /\ alt_path = <<>>
    /\ alt_type = ""

\* a direct call of _get_box_sizes on a maker whose catalog holds one
\* detection (the computation is element-wise)
InitBox ==
    /\ SrcIdle
    /\ mk_pc = "call_box"
    /\ variant = "db"
    /\ do_inputs = FALSE
    /\ do_meds = FALSE
    /\ conf \in Confs
    /\ cat_file = <<>>
    /\ coadd_cat \in {<<d>> : d \in Detections}
    /\ lookup = <<>>
    /\ obj_data = NoObjData
    /\ stubby = NoFile
    /\ meds_file = NoFile
    /\ mk_err = ""
    /\ box_out = [ok |-> TRUE, sizes |-> <<>>, err |-> ""]
    /\ GoIdle

\* the direct call _get_box_sizes()
GetBoxSizesCall ==
    /\ mk_pc = "call_box"
    /\ mk_pc' = "box_returned"
    /\ box_out' = GetBoxSizes(conf, coadd_cat)
    /\ UNCHANGED <<mkin, coadd_cat, obj_data, stubby, meds_file, mk_err, image_info,
                   temps, conn, phases>>
    /\ UNCHANGED fl_out
    /\ UNCHANGED srcvars

NextBox == GetBoxSizesCall

SpecBox == InitBox /\ [][NextBox]_vars

\* ------------------------------------------------------------ claims C7 - C8
\* C7: for every detection and configuration the box size _get_box_sizes
\* returns is a member of allowed_box_sizes or equals max_box_size; the
\* lower sentinel 0 is never returned.
C7_BoxSizeAllowedOrMax ==
    mk_pc = "box_returned" =>
        /\ box_out.ok
        /\ Len(box_out.sizes) = Len(coadd_cat)
        /\ \A i \in DOMAIN box_out.sizes :
              /\ box_out.sizes[i] \in Range(conf.allowed) \cup {conf.max}
              /\ box_out.sizes[i] # 0

C7_Witness ==
    /\ mk_pc = "box_returned"
    /\ conf = [min |-> 1, max |-> 3, allowed |-> <<1, 2>>]
    /\ coadd_cat[1].sigma_size = 6
    /\ box_out.sizes = <<3>>

\* the sizes a box may take: the allowed sizes within [min_box_size,
\* max_box_size] together with max_box_size
C8_Sizes == {s \in Range(conf.allowed) : conf.min <= s /\ s <= conf.max} \cup {conf.max}

\* max(row extent + 1, col extent + 1, sigma_size) clipped to the range
C8_Clipped(d) ==
    LET m == IF d.row_ext + 1 >= d.col_ext + 1 THEN d.row_ext + 1 ELSE d.col_ext + 1
        cand == IF d.sigma_size >= m THEN d.sigma_size ELSE m
        low == IF cand < conf.min THEN conf.min ELSE cand
    IN  IF low > conf.max THEN conf.max ELSE low

\* C8: the chosen box size is the smallest value, among the allowed sizes in
\* [min_box_size, max_box_size] together with max_box_size, that is >= the
\* clipped candidate; min=16, max=256, allowed=[16,32,64,128,256], extents
\* 10x10 and 50x50, sigma sizes 8 and 40 give [16, 64].
C8_SmallestSizeAtLeastCandidate ==
    mk_pc = "box_returned" =>
        /\ box_out.ok
        /\ \A i \in DOMAIN coadd_cat :
              /\ box_out.sizes[i] \in C8_Sizes
              /\ box_out.sizes[i] >= C8_Clipped(coadd_cat[i])
              /\ \A s \in C8_Sizes :
                    s >= C8_Clipped(coadd_cat[i]) => box_out.sizes[i] <= s
        /\ GetBoxSizes([min |-> 16, max |-> 256, allowed |-> <<16, 32, 64, 128, 256>>],
                       <<[number |-> 1, row_ext |-> 10, col_ext |-> 10, sigma_size |-> 8],
                         [number |-> 2, row_ext |-> 50, col_ext |-> 50, sigma_size |-> 40]>>
                      ).sizes = <<16, 64>>

C8_Witness ==
    /\ mk_pc = "box_returned"
    /\ conf = [min |-> 1, max |-> 3, allowed |-> <<1, 3>>]
    /\ coadd_cat[1].row_ext = 1
    /\ coadd_cat[1].col_ext = 0
    /\ coadd_cat[1].sigma_size = 0
    /\ box_out.sizes = <<3>>

\* ------------------------------------------------- maker: _build_image_data
\* most entries a source list holds
MaxSrc == 2

\* a path under the data root, as its segments
DataPath(kind, id, suffix) == <<"/desdata", kind, ToString(id), suffix>>

\* one entry of Coadd.srclist as the catalog gives it: flags and wcs_header
\* are not set yet (-1 and the empty header)
Src(id, corrupted, magzp) ==
    [id |-> id, corrupted |-> corrupted, magzp |-> magzp, flags |-> -1,
     red_image |-> DataPath("red", id, "immasked.fits"),
     red_bkg |-> DataPath("bkg", id, "bkg.fits"),
     red_seg |-> DataPath("seg", id, "segmap.fits"),
     astro_refine |-> DataPath("astrorefine", id, "head"),
     wcs_header |-> <<>>]

\* entry number sid of the list _load_ngwint_info builds, with the paths
\* _load_srclist adds
DesdmSrc(sid, magzp) ==
    [Src(sid, FALSE, magzp) EXCEPT !.flags = 0, !.wcs_header = <<"hdr", "red", ToString(sid)>>]

\* the source lists the catalog may hold: pairwise distinct ids
DbSrcLists ==
    {l \in SeqsUpTo({Src(id, c, m) : id \in 1..(MaxSrc + 1), c \in BOOLEAN, m \in {30, 31}},
                    MaxSrc) :
        \A i, j \in DOMAIN l : i # j => l[i].id # l[j].id}

\* the source lists _load_srclist may build: ids count up from 0
DesdmSrcLists ==
    UNION {{[i \in 1..n |-> DesdmSrc(i - 1, m[i])] : m \in [1..n -> {30, 31}]} :
              n \in 0..MaxSrc}

\* the test blacklists.remove_corrupted applies to one entry
NotCorrupted(s) == ~s.corrupted

\* blacklists.remove_corrupted(srclist)
RemoveCorrupted(srclist) == SelectSeq(srclist, NotCorrupted)

\* blacklists.add_blacklist_flags: the flag an entry gets; exposure 2 is on
\* a blacklist
BlacklistFlags(s) == IF s.id = 2 THEN 4 ELSE 0

\* the header _get_srclist reads for one entry
WcsHeader(s, astro) ==
    IF astro THEN <<"scamp", "astrorefine", ToString(s.id)>>
    ELSE <<"hdr", "red", ToString(s.id)>>

\* _get_srclist without the test for an empty list
GetSrcListAcceptsEmpty(v, astro, srclist) ==
    IF v = "desdm" THEN [ok |-> TRUE, list |-> srclist, err |-> ""]
    ELSE [ok |-> TRUE, err |-> "",
          list |-> [i \in DOMAIN RemoveCorrupted(srclist) |->
                      [RemoveCorrupted(srclist)[i] EXCEPT
                          !.flags = BlacklistFlags(RemoveCorrupted(srclist)[i]),
                          !.wcs_header = WcsHeader(RemoveCorrupted(srclist)[i], astro)]]]

\* _get_srclist: DESMEDSMaker filters, refuses an empty list, sets flags and
\* headers; DESMEDSMakerDESDM returns cf['srclist'] as it is
GetSrcList(v, astro, srclist) ==
    IF v = "desdm" THEN [ok |-> TRUE, list |-> srclist, err |-> ""]
    ELSE IF Len(RemoveCorrupted(srclist)) = 0
    THEN [ok |-> FALSE, list |-> <<>>, err |-> "RuntimeError"]
    ELSE [ok |-> TRUE, err |-> "",
          list |-> [i \in DOMAIN RemoveCorrupted(srclist) |->
                      [RemoveCorrupted(srclist)[i] EXCEPT
                          !.flags = BlacklistFlags(RemoveCorrupted(srclist)[i]),
                          !.wcs_header = WcsHeader(RemoveCorrupted(srclist)[i], astro)]]]

\* json.dumps of a header
Json(h) == <<"json">> \o h

\* the strings of the sources in reverse order behind the coadd's
WcsJsonReversed(srclist) ==
    <<Json(<<"hdr", "coadd">>)>> \o
        [i \in DOMAIN srclist |-> Json(srclist[Len(srclist) + 1 - i].wcs_header)]

\* _get_wcs_json: the coadd's string, then one per source in list order
WcsJson(srclist) ==
    <<Json(<<"hdr", "coadd">>)>> \o [i \in DOMAIN srclist |-> Json(srclist[i].wcs_header)]

\* _get_portable_url: the data root replaced by ${DESDATA}; the DESDM maker
\* returns the path as it is
PortableUrl(v, path) ==
    IF v = "desdm" THEN path
    ELSE [i \in DOMAIN path |-> IF path[i] = "/desdata" THEN "${DESDATA}" ELSE path[i]]

\* _get_scale: 10**(0.4*(magzp_ref - magzp)), held as ten times its exponent
Scale(magzp) == [pow10_tenths |-> 4 * (30 - magzp)]

\* row 0 of image_info: the coadd, with coadd_bmask_ext -1
CoaddRow(v, wcs_json) ==
    [image_id |-> "coadd", image_flags |-> 0,
     image_path |-> PortableUrl(v, DataPath("coadd", 0, "coadd.fits")),
     weight_path |-> PortableUrl(v, DataPath("coadd", 0, "coadd.fits")),
     bmask_path |-> <<>>,
     bkg_path |-> <<>>,
     seg_path |-> PortableUrl(v, DataPath("coadd", 0, "seg.fits")),
     wcs |-> wcs_json[1], magzp |-> 30, scale |-> Scale(30)]

\* the row the loop over srclist fills at index ind (0-based) for source s
SrcRow(v, s, wcs_json, ind) ==
    [image_id |-> s.id, image_flags |-> s.flags,
     image_path |-> PortableUrl(v, s.red_image),
     weight_path |-> PortableUrl(v, s.red_image),
     bmask_path |-> PortableUrl(v, s.red_image),
     bkg_path |-> PortableUrl(v, s.red_bkg),
     seg_path |-> PortableUrl(v, s.red_seg),
     wcs |-> wcs_json[ind + 1], magzp |-> s.magzp, scale |-> Scale(s.magzp)]

\* _build_image_data: the image_info it stores, or the error _get_srclist
\* raised
BuildImageInfo(v, astro, srclist) ==
    LET g == GetSrcList(v, astro, srclist)
    IN  IF ~g.ok THEN [ok |-> FALSE, info |-> <<>>, err |-> g.err]
        ELSE [ok |-> TRUE, err |-> "",
              info |-> <<CoaddRow(v, WcsJson(g.list))>> \o
                       [i \in DOMAIN g.list |-> SrcRow(v, g.list[i], WcsJson(g.list), i)]]

\* a direct call of _build_image_data on a maker whose cf is loaded
InitImage ==
    /\ SrcIdle
    /\ mk_pc = "call_image"
    /\ variant \in {"db", "desdm"}
    /\ do_inputs = TRUE
    /\ do_meds = TRUE
    /\ conf = [min |-> 0, max |-> 0, allowed |-> <<>>]
    /\ use_astro_refine \in IF variant = "db" THEN BOOLEAN ELSE {FALSE}
    /\ cf_srclist \in IF variant = "db" THEN DbSrcLists ELSE DesdmSrcLists
    /\ cat_file = <<>>
    /\ coadd_cat = <<>>
    /\ lookup = <<>>
    /\ obj_data = NoObjData
    /\ stubby = NoFile
    /\ meds_file = NoFile
    /\ mk_err = ""
    /\ box_out = [ok |-> TRUE, sizes |-> <<>>, err |-> ""]
    /\ image_info = <<>>
    /\ temps = {}
    /\ conn = NoConn
    /\ phases = <<>>
    /\ faults = {}
    /\ FlistIdle

\* the direct call _build_image_data()
BuildImageDataCall ==
    /\ mk_pc = "call_image"
    /\ mk_pc' = IF BuildImageInfo(variant, use_astro_refine, cf_srclist).ok
                THEN "image_returned" ELSE "image_raised"
    /\ image_info' = BuildImageInfo(variant, use_astro_refine, cf_srclist).info
    /\ mk_err' = BuildImageInfo(variant, use_astro_refine, cf_srclist).err
    /\ UNCHANGED <<mkin, coadd_cat, obj_data, stubby, meds_file, box_out, temps, conn,
                   phases>>
    /\ UNCHANGED fl_out
    /\ UNCHANGED srcvars

NextImage == BuildImageDataCall

SpecImage == InitImage /\ [][NextImage]_vars

\* --------------------------------------------------------------- maker: go()
\* the configuration of the makers that run go()
GoConf == [min |-> 1, max |-> MaxBox, allowed |-> Ascending(1..MaxBox)]

\* the detection with number n in the coadd catalog
GoDetection(n) == Detection(n, n % (MaxExt + 1), 0, n - 1)

\* sequences of pairwise distinct object numbers
NumberLists ==
    {s \in SeqsUpTo(1..MaxObj, MaxObj) : \A i, j \in DOMAIN s : i # j => s[i] # s[j]}

\* one row of the identity query: object_number and its coadd_objects_id
LookupRow(n) == [object_number |-> n, coadd_objects_id |-> 100 + n]

\* the external calls that may fail: opening the connection, the coadd
\* query, reading the catalog, the identity query, writing each of the three
\* extensions of the stubby file, reading it back, MEDSMaker.write, fpack
Faults == {"connect", "query", "cat", "ids", "write1", "write2", "write3", "load",
           "meds", "fpack"}

\* what the three extensions of a file hold
Content(obj, info) == [obj_data |-> obj, image_info |-> info]

\* the complete file an earlier run left at a final path
OldFile ==
    [exists |-> TRUE, sections |-> 3,
     obj |-> Content([set |-> TRUE, number |-> <<1>>, box_size |-> <<1>>, id |-> <<0>>,
                      radec |-> TRUE], <<>>)]

\* a maker about to run go(); every external call succeeds
InitGo ==
    /\ SrcIdle
    /\ mk_pc = "go"
    /\ variant \in {"db", "desdm"}
    /\ IF variant = "db" THEN do_inputs \in BOOLEAN /\ do_meds \in BOOLEAN
                         ELSE do_inputs = TRUE /\ do_meds = TRUE
    /\ conf = GoConf
    /\ use_astro_refine = FALSE
    /\ IF do_inputs
       THEN /\ cat_file \in {[i \in DOMAIN s |-> GoDetection(s[i])] : s \in NumberLists}
            /\ IF variant = "db"
               THEN lookup \in {[i \in DOMAIN s |-> LookupRow(s[i])] : s \in NumberLists}
               ELSE lookup = <<>>
            /\ cf_srclist = IF variant = "db" THEN <<Src(1, FALSE, 30)>>
                                              ELSE <<DesdmSrc(0, 30)>>
       ELSE cat_file = <<>> /\ lookup = <<>> /\ cf_srclist = <<>>
    /\ coadd_cat = <<>>
    /\ obj_data = NoObjData
    /\ stubby \in IF variant = "db" THEN {NoFile, OldFile} ELSE {NoFile}
    /\ meds_file = NoFile
    /\ mk_err = ""
    /\ box_out = [ok |-> TRUE, sizes |-> <<>>, err |-> ""]
    /\ image_info = <<>>
    /\ temps = {}
    /\ conn = NoConn
    /\ phases = <<>>
    /\ faults = {}
    /\ FlistIdle

\* a maker about to run go() in an invocation where at most one external
\* call fails, with files of an earlier run at the final paths or not
InitFaulty ==
    /\ SrcIdle
    /\ mk_pc = "go"
    /\ variant \in {"db", "desdm"}
    /\ IF variant = "db" THEN do_inputs \in BOOLEAN /\ do_meds \in BOOLEAN
                         ELSE do_inputs = TRUE /\ do_meds = TRUE
    /\ conf = GoConf
    /\ use_astro_refine = FALSE
    /\ IF do_inputs
       THEN /\ cat_file = <<GoDetection(1), GoDetection(2)>>
            /\ IF variant = "db"
               THEN lookup \in {<<LookupRow(2), LookupRow(1)>>, <<LookupRow(1)>>}
               ELSE lookup = <<>>
            /\ cf_srclist \in
                  IF variant = "db"
                  THEN {<<>>, <<Src(1, TRUE, 30)>>, <<Src(1, FALSE, 30), Src(2, FALSE, 31)>>}
                  ELSE {<<>>, <<DesdmSrc(0, 30)>>}
       ELSE cat_file = <<>> /\ lookup = <<>> /\ cf_srclist = <<>>
    /\ coadd_cat = <<>>
    /\ obj_data = NoObjData
    /\ stubby \in IF variant = "db" THEN {NoFile, OldFile} ELSE {NoFile}
    /\ meds_file \in {NoFile, OldFile}
    /\ mk_err = ""
    /\ box_out = [ok |-> TRUE, sizes |-> <<>>, err |-> ""]
    /\ image_info = <<>>
    /\ temps = {}
    /\ conn = NoConn
    /\ phases = <<>>
    /\ faults \in {{}} \cup {{f} : f \in Faults}
    /\ FlistIdle

\* _query_coadd_info, the first step of go() with do_inputs: the connection
\* is opened, then the two Coadd loads run their queries
QueryCoaddInfo ==
    /\ mk_pc = "go"
    /\ variant = "db"
    /\ do_inputs
    /\ IF "connect" \in faults
       THEN mk_pc' = "failed" /\ mk_err' = "DatabaseError" /\ UNCHANGED <<conn, phases>>
       ELSE /\ conn' = [opens |-> conn.opens + 1, open |-> TRUE]
            /\ IF "query" \in faults
               THEN mk_pc' = "failed" /\ mk_err' = "DatabaseError" /\ UNCHANGED phases
               ELSE mk_pc' = "queried" /\ phases' = Append(phases, "query")
                    /\ UNCHANGED mk_err
    /\ UNCHANGED <<mkin, coadd_cat, obj_data, stubby, meds_file, box_out, image_info,
                   temps>>
    /\ UNCHANGED fl_out
    /\ UNCHANGED srcvars

\* DESMEDSMakerDESDM._load_coadd_info, the first step of its go(): the
\* source list is read from the file lists, no connection is opened
LoadCoaddInfo ==
    /\ mk_pc = "go"
    /\ variant = "desdm"
    /\ IF "query" \in faults
       THEN mk_pc' = "failed" /\ mk_err' = "IOError" /\ UNCHANGED phases
       ELSE mk_pc' = "queried" /\ phases' = Append(phases, "query") /\ UNCHANGED mk_err
    /\ UNCHANGED <<mkin, coadd_cat, obj_data, stubby, meds_file, box_out, image_info,
                   temps, conn>>
    /\ UNCHANGED fl_out
    /\ UNCHANGED srcvars

\* _read_coadd_cat: the catalog, sorted by its number field
ReadCoaddCat ==
    /\ mk_pc = "queried"
    /\ IF "cat" \in faults
       THEN mk_pc' = "failed" /\ mk_err' = "IOError" /\ UNCHANGED <<coadd_cat, phases>>
       ELSE /\ mk_pc' = "cat_read"
            /\ \E q \in ArgSorts([i \in DOMAIN cat_file |-> cat_file[i].number]) :
                   coadd_cat' = [i \in DOMAIN cat_file |-> cat_file[q[i]]]
            /\ phases' = Append(phases, "cat")
            /\ UNCHANGED mk_err
    /\ UNCHANGED <<mkin, obj_data, stubby, meds_file, box_out, image_info, temps, conn>>
    /\ UNCHANGED fl_out
    /\ UNCHANGED srcvars

\* _build_image_data
BuildImageData ==
    /\ mk_pc = "cat_read"
    /\ IF BuildImageInfo(variant, use_astro_refine, cf_srclist).ok
       THEN /\ mk_pc' = "images_built"
            /\ image_info' = BuildImageInfo(variant, use_astro_refine, cf_srclist).info
            /\ phases' = Append(phases, "image")
            /\ UNCHANGED mk_err
       ELSE /\ mk_pc' = "failed"
            /\ mk_err' = BuildImageInfo(variant, use_astro_refine, cf_srclist).err
            /\ UNCHANGED <<image_info, phases>>
    /\ UNCHANGED <<mkin, coadd_cat, obj_data, stubby, meds_file, box_out, temps, conn>>
    /\ UNCHANGED fl_out
    /\ UNCHANGED srcvars

\* _build_meta_data
BuildMetaData ==
    /\ mk_pc = "images_built"
    /\ mk_pc' = "meta_built"
    /\ phases' = Append(phases, "meta")
    /\ UNCHANGED <<mkin, coadd_cat, obj_data, stubby, meds_file, mk_err, box_out,
                   image_info, temps, conn>>
    /\ UNCHANGED fl_out
    /\ UNCHANGED srcvars

\* _get_coadd_objects_ids: the rows of the query, or for the DESDM maker
\* the numbers 1..nobj with id -1
GetCoaddObjectsIds(v, rows, nobj) ==
    IF v = "desdm"
    THEN [i \in 1..nobj |-> [object_number |-> i, coadd_objects_id |-> -1]]
    ELSE rows

\* iddata left in the order the query returned it
IdDataUnsorted(iddata, q) == iddata

\* iddata = iddata[q]
IdDataSorted(iddata, q) == [i \in DOMAIN iddata |-> iddata[q[i]]]

\* the comparison of the common part, without the check of the shapes
ArrayEqualNoShape(a, b) ==
    \A i \in 1..Min2(Len(a), Len(b)) : a[i] = b[i]

\* numpy.array_equal(a, b): the same shape and the same elements
ArrayEqual(a, b) ==
    /\ Len(a) = Len(b)
    /\ \A i \in DOMAIN a : a[i] = b[i]

\* obj_data as _build_object_data has filled it when it checks the ids
ObjDataBeforeIds(c, cat) ==
    [set |-> TRUE,
     number |-> [i \in DOMAIN cat |-> cat[i].number],
     box_size |-> GetBoxSizes(c, cat).sizes,
     id |-> <<>>,
     radec |-> FALSE]

\* _build_object_data: allocate obj_data, fill number, positions and box
\* sizes, query the ids and sort them by object number, assert that the
\* numbers agree, then fill id, ra and dec
BuildObjectData ==
    /\ mk_pc = "meta_built"
    /\ IF variant = "db" /\ "ids" \in faults
       THEN /\ mk_pc' = "failed"
            /\ obj_data' = ObjDataBeforeIds(conf, coadd_cat)
            /\ mk_err' = "DatabaseError"
            /\ UNCHANGED phases
       ELSE \E q \in ArgSorts([i \in DOMAIN GetCoaddObjectsIds(variant, lookup, Len(coadd_cat)) |->
                             GetCoaddObjectsIds(variant, lookup, Len(coadd_cat))[i].object_number]) :
          LET iddata == IdDataSorted(GetCoaddObjectsIds(variant, lookup, Len(coadd_cat)), q)
          IN  IF ArrayEqual([i \in DOMAIN coadd_cat |-> coadd_cat[i].number],
                            [i \in DOMAIN iddata |-> iddata[i].object_number])
              THEN /\ mk_pc' = "objects_built"
                   /\ obj_data' = [ObjDataBeforeIds(conf, coadd_cat) EXCEPT
                                      !.id = [i \in DOMAIN iddata |-> iddata[i].coadd_objects_id],
                                      !.radec = TRUE]
                   /\ phases' = Append(phases, "object")
                   /\ UNCHANGED mk_err
              ELSE /\ mk_pc' = "failed"
                   /\ obj_data' = ObjDataBeforeIds(conf, coadd_cat)
                   /\ mk_err' = "AssertionError"
                   /\ UNCHANGED phases
    /\ UNCHANGED <<mkin, coadd_cat, stubby, meds_file, box_out, image_info, temps, conn>>
    /\ UNCHANGED fl_out
    /\ UNCHANGED srcvars

\* StagedOutFile that moves the temporary to the final path at every exit
StagedOutAlways(final, built, ok) == built

\* StagedOutFile: what the final path holds after the with block; the file
\* built at the private temporary path is moved there when the block
\* finished (ok) and discarded when it raised
StagedOut(final, built, ok) == IF ok THEN built ELSE final

\* a scoped temporary that is removed only when its block finished
LeftoverOnFailure(name, ok) == IF ok THEN {} ELSE {name}

\* TempFile, StagedInFile, StagedOutFile: the temporaries left behind when
\* the with block is left; they are removed on every exit path
Leftover(name, ok) == {}

\* the extensions _write_stubby_meds gets written before a write fails
SectionsWritten(f) ==
    IF "write1" \in f THEN 0
    ELSE IF "write2" \in f THEN 1
    ELSE IF "write3" \in f THEN 2
    ELSE 3

\* _write_stubby_meds, the last step of go() with do_inputs: the three
\* extensions are written to the staged temporary
WriteStubbyMeds ==
    /\ mk_pc = "objects_built"
    /\ variant = "db"
    /\ LET ok == SectionsWritten(faults) = 3
           built == [exists |-> TRUE, sections |-> SectionsWritten(faults),
                     obj |-> Content(obj_data, image_info)]
       IN  /\ stubby' = StagedOut(stubby, built, ok)
           /\ temps' = temps \cup Leftover("stubby_out", ok)
           /\ mk_pc' = IF ok THEN "inputs_done" ELSE "failed"
           /\ mk_err' = IF ok THEN mk_err ELSE "IOError"
           /\ phases' = IF ok THEN Append(phases, "stubby") ELSE phases
    /\ UNCHANGED <<mkin, coadd_cat, obj_data, meds_file, box_out, image_info, conn>>
    /\ UNCHANGED fl_out
    /\ UNCHANGED srcvars

\* go() goes on after a step raised
MedsPhaseAfterFailure ==
    mk_pc \in {"inputs_done", "failed"} \/ (mk_pc = "go" /\ ~do_inputs)

\* go() reaches  if self.do_meds : the inputs phase finished or was not asked
MedsPhase == mk_pc = "inputs_done" \/ (mk_pc = "go" /\ ~do_inputs)

\* _load_stubby_meds, the first step of go() with do_meds: the stubby file
\* is staged in and its extensions replace obj_data and image_info
LoadStubbyMeds ==
    /\ variant = "db"
    /\ do_meds
    /\ MedsPhase
    /\ LET ok == stubby.exists /\ "load" \notin faults
       IN  /\ temps' = temps \cup Leftover("stubby_in", ok)
           /\ IF ok
              THEN /\ mk_pc' = "stubby_loaded"
                   /\ obj_data' = stubby.obj.obj_data
                   /\ image_info' = stubby.obj.image_info
                   /\ phases' = Append(phases, "load")
                   /\ UNCHANGED mk_err
              ELSE /\ mk_pc' = "failed"
                   /\ mk_err' = "IOError"
                   /\ UNCHANGED <<obj_data, image_info, phases>>
    /\ UNCHANGED <<mkin, coadd_cat, stubby, meds_file, box_out, conn>>
    /\ UNCHANGED fl_out
    /\ UNCHANGED srcvars

\* os.remove(tpath) when the path exists
RemoveIfExists(final) == NoFile

\* _compress_meds_file: the compressed file at the final path is removed,
\* then fpack runs inside the StagedOutFile block; ok is  ret == 0
CompressMedsFile(final, built, ok) == StagedOut(RemoveIfExists(final), built, ok)

\* _write_meds_file: DESMEDSMaker writes to a temporary file and compresses
\* it to the final path; DESMEDSMakerDESDM writes to the final path
WriteMedsFile ==
    /\ \/ variant = "db" /\ mk_pc = "stubby_loaded"
       \/ variant = "desdm" /\ mk_pc = "objects_built"
    /\ LET built == [exists |-> TRUE, sections |-> 3,
                     obj |-> Content(obj_data, image_info)]
           ok == "meds" \notin faults /\ (variant = "desdm" \/ "fpack" \notin faults)
       IN  /\ meds_file' =
                  IF variant = "desdm"
                  THEN IF ok THEN built ELSE [built EXCEPT !.sections = 0]
                  ELSE IF "meds" \in faults THEN meds_file
                  ELSE CompressMedsFile(meds_file, built, "fpack" \notin faults)
           /\ temps' = IF variant = "desdm" THEN temps
                       ELSE temps \cup Leftover("meds_uc", ok)
                                  \cup (IF "meds" \in faults THEN {}
                                        ELSE Leftover("meds_fz", ok))
           /\ mk_pc' = IF ok THEN "done" ELSE "failed"
           /\ mk_err' = IF ok THEN mk_err
                        ELSE IF "meds" \in faults THEN "IOError" ELSE "RuntimeError"
           /\ phases' = IF ok THEN Append(phases, "meds") ELSE phases
    /\ UNCHANGED <<mkin, coadd_cat, obj_data, stubby, box_out, image_info, conn>>
    /\ UNCHANGED fl_out
    /\ UNCHANGED srcvars

\* go() returns without writing a MEDS file when do_meds is not set
GoReturn ==
    /\ variant = "db"
    /\ ~do_meds
    /\ MedsPhase
    /\ mk_pc' = "done"
    /\ UNCHANGED <<mkin, coadd_cat, obj_data, stubby, meds_file, mk_err, box_out,
                   image_info, temps, conn, phases>>
    /\ UNCHANGED fl_out
    /\ UNCHANGED srcvars

NextMaker ==
    \/ QueryCoaddInfo
    \/ LoadCoaddInfo
    \/ ReadCoaddCat
    \/ BuildImageData
    \/ BuildMetaData
    \/ BuildObjectData
    \/ WriteStubbyMeds
    \/ LoadStubbyMeds
    \/ WriteMedsFile
    \/ GoReturn

SpecMaker == InitGo /\ [][NextMaker]_vars

\* go() in invocations where an external call may fail
SpecGo == InitFaulty /\ [][NextMaker]_vars

\* ----------------------------------------------------------- claims C9 - C10
\* _build_object_data has run and either finished or failed its check
C9_ObjectPhaseOver ==
    mk_pc = "objects_built" \/ (mk_pc = "failed" /\ mk_err = "AssertionError")

\* the catalog's object numbers in ascending order
C9_CatalogSorted == Ascending({cat_file[i].number : i \in DOMAIN cat_file})

\* the lookup's object numbers in ascending order
C9_LookupSorted ==
    IF variant = "desdm" THEN [i \in 1..Len(cat_file) |-> i]
    ELSE Ascending({lookup[i].object_number : i \in DOMAIN lookup})

\* C9: _build_object_data succeeds if and only if the catalog object numbers
\* sorted ascending equal, element by element, the lookup's object numbers
\* sorted ascending, whatever order the lookup returned; on success the
\* records are in catalog number order and record i carries the identifier
\* the lookup gave its number; for the DESDM maker, whose lookup is 1..N,
\* success means the sorted catalog numbers are 1..N.
C9_IdentityReconciliation ==
    C9_ObjectPhaseOver =>
        /\ mk_pc = "objects_built" <=> C9_CatalogSorted = C9_LookupSorted
        /\ mk_pc = "objects_built" =>
              /\ obj_data.number = C9_CatalogSorted
              /\ Len(obj_data.id) = Len(obj_data.number)
              /\ variant = "db" =>
                    \A i \in DOMAIN obj_data.number :
                        \E k \in DOMAIN lookup :
                            /\ lookup[k].object_number = obj_data.number[i]
                            /\ lookup[k].coadd_objects_id = obj_data.id[i]
              /\ variant = "desdm" =>
                    /\ obj_data.number = [i \in 1..Len(cat_file) |-> i]
                    /\ \A i \in DOMAIN obj_data.id : obj_data.id[i] = -1

C9_Witness ==
    /\ mk_pc = "objects_built"
    /\ variant = "db"
    /\ [i \in DOMAIN lookup |-> lookup[i].object_number] = <<2, 1, 3>>
    /\ [i \in DOMAIN cat_file |-> cat_file[i].number] = <<1, 2, 3>>
    /\ obj_data.id = <<101, 102, 103>>

\* the lookup lacks an object of the catalog, or names one it does not hold
C10_Disagree ==
    {cat_file[i].number : i \in DOMAIN cat_file} #
        (IF variant = "desdm" THEN 1..Len(cat_file)
         ELSE {lookup[i].object_number : i \in DOMAIN lookup})

\* no stubby file was written by this run
C10_NoManifest == stubby \in {NoFile, OldFile} /\ meds_file = NoFile

\* C10 as claimed: when the lookup disagrees with the catalog
\* _build_object_data fails, the maker is not left holding a partially
\* filled obj_data, and no manifest is written.
C10_NoPartialObjData ==
    (mk_pc \notin {"go", "queried", "cat_read", "images_built", "meta_built"}
        /\ do_inputs /\ C10_Disagree) =>
        /\ mk_pc = "failed"
        /\ ~obj_data.set
        /\ C10_NoManifest

\* C10, amended: when the lookup disagrees with the catalog
\* _build_object_data fails with an error, go() stops there and no manifest
\* is written; the maker is left holding an obj_data whose number and
\* box_size columns are filled and whose id, ra and dec are not.
C10_FailsWithoutManifest ==
    (mk_pc \notin {"go", "queried", "cat_read", "images_built", "meta_built"}
        /\ do_inputs /\ C10_Disagree) =>
        /\ mk_pc = "failed"
        /\ mk_err = "AssertionError"
        /\ C10_NoManifest
        /\ obj_data.set
        /\ obj_data.number = Ascending({cat_file[i].number : i \in DOMAIN cat_file})
        /\ Len(obj_data.box_size) = Len(cat_file)
        /\ obj_data.id = <<>>
        /\ ~obj_data.radec

C10_Witness ==
    /\ mk_pc = "failed"
    /\ variant = "db"
    /\ [i \in DOMAIN lookup |-> lookup[i].object_number] = <<1, 2>>
    /\ [i \in DOMAIN cat_file |-> cat_file[i].number] = <<1, 2, 3>>
    /\ stubby = OldFile

\* ----------------------------------------------------- claims C17, C18, C20
\* where record r of sort_in stands in the sorted list
C17_Pos(r) == CHOOSE k \in DOMAIN sorted : sorted[k] = r

\* the list returned is a permutation of the list passed
C17_Permutation ==
    \E p \in Perms(Len(sort_in)) : sorted = [i \in DOMAIN sort_in |-> sort_in[p[i]]]

\* the digests of the list returned never decrease
C17_AscendingDigest ==
    \A i \in 1..(Len(sorted) - 1) : HashOf(sorted[i]) <= HashOf(sorted[i + 1])

C18_TemplateByFirstRule ==
    Queried =>
        /\ campaign \in {"Y5A1_COADD", "Y6A1_COADD", "Y6A2_COADD"}
              <=> template = "_QUERY_COADD_SRC_BYTILE_Y5"
        /\ campaign = "Y3A2_COSMOS_COADD_TRUTH_V4"
              <=> template = "_QUERY_COADD_SRC_BYTILE_Y3A2_COSMOS"
        /\ campaign \in {"DR3_1", "DR3_2"}
              <=> template = "_QUERY_COADD_SRC_BYTILE_DECADE"
        /\ campaign = "DR3" <=> template = "_QUERY_COADD_SRC_BYTILE_DECADE_DR3"
        /\ campaign \in {"NGC55_COADD_V4", "LEO_CAND", "NGC300_COADD", "IC5152_COADD",
                         "NGC3109_COADD"}
              <=> template = "_QUERY_COADD_SRC_BYTILE_DELVE_DEEP"
        /\ campaign = "SEXB_COADD"
              <=> template = "_QUERY_COADD_SRC_BYTILE_DELVE_DEEP_SEXTANSB"
        /\ campaign \in {"Y3A1_COADD", "Y3A2_COADD"}
              <=> template = "_QUERY_COADD_SRC_BYTILE_Y3"

C18_Witness ==
    Queried /\ campaign = "DR3_1" /\ template = "_QUERY_COADD_SRC_BYTILE_DECADE"

\* C20: every record _add_full_paths returns has an image_path named
\* filename + compression, a bkg_path and a seg_path named after the image
\* with 'immasked.fits' replaced by 'bkg.fits' and 'segmap.fits' and the
\* compression suffix kept, and a psf_path with 'psfexcat.psf' and no
\* compression suffix; the directory comes from the record's path alone and
\* the file name from its filename alone.
C20_FullPaths ==
    (Queried /\ outcome = "returned") =>
        \A i \in DOMAIN ret :
            LET r == ret[i]
                stem == Stem(r.expnum, r.ccdnum)
                up == <<"$DESDATA">> \o Front(r.path)
            IN  /\ r.filename = <<stem, "immasked.fits">>
                /\ r.image_path.name = <<stem, "immasked.fits", r.compression>>
                /\ r.bkg_path.name = <<stem, "bkg.fits", r.compression>>
                /\ r.seg_path.name = <<stem, "segmap.fits", r.compression>>
                /\ r.psf_path.name = <<stem, "psfexcat.psf">>
                /\ r.image_path.dir = <<"$DESDATA">> \o r.path
                /\ r.bkg_path.dir = up \o <<"bkg">>
                /\ r.seg_path.dir = Front(up) \o <<"seg">>
                /\ r.psf_path.dir = Front(up) \o <<"psf">>

C20_Witness ==
    /\ Queried
    /\ outcome = "returned"
    /\ Len(ret) = 2
    /\ ret[1].filename # ret[2].filename
    /\ ret[1].bkg_path.dir = ret[2].bkg_path.dir
    /\ ret[1].bkg_path.name # ret[2].bkg_path.name

\* ---------------------------------------------------------------- claim C11
\* the source list _get_srclist hands to _build_image_data
C11_SrcList ==
    IF variant = "desdm" THEN cf_srclist
    ELSE SelectSeq(cf_srclist, NotCorrupted)

\* the data root as image_info spells it
C11_Root == IF variant = "desdm" THEN "/desdata" ELSE "${DESDATA}"

\* C11: after _build_image_data image_info has len(srclist)+1 rows, row 0
\* describes the coadd, and for every i in 1..N row i holds the id, flags,
\* image, weight, mask, background and segmentation paths, serialized WCS,
\* magzp and scale of srclist[i-1].
C11_ImageRowsInLockstep ==
    mk_pc = "image_returned" =>
        /\ Len(image_info) = Len(C11_SrcList) + 1
        /\ image_info[1].image_id = "coadd"
        /\ image_info[1].image_path = <<C11_Root, "coadd", "0", "coadd.fits">>
        /\ image_info[1].wcs = <<"json", "hdr", "coadd">>
        /\ \A i \in DOMAIN C11_SrcList :
              LET s == C11_SrcList[i]
                  row == image_info[i + 1]
                  n == ToString(s.id)
              IN  /\ row.image_id = s.id
                  /\ row.image_flags =
                        (IF variant = "db" /\ s.id = 2 THEN 4 ELSE 0)
                  /\ row.image_path = <<C11_Root, "red", n, "immasked.fits">>
                  /\ row.weight_path = row.image_path
                  /\ row.bmask_path = row.image_path
                  /\ row.bkg_path = <<C11_Root, "bkg", n, "bkg.fits">>
                  /\ row.seg_path = <<C11_Root, "seg", n, "segmap.fits">>
                  /\ row.wcs = (IF use_astro_refine
                                THEN <<"json", "scamp", "astrorefine", n>>
                                ELSE <<"json", "hdr", "red", n>>)
                  /\ row.magzp = s.magzp
                  /\ row.scale = [pow10_tenths |-> 4 * (30 - s.magzp)]

C11_Witness ==
    /\ mk_pc = "image_returned"
    /\ variant = "db"
    /\ Len(cf_srclist) = 2
    /\ cf_srclist[1].id = 3
    /\ cf_srclist[2].id = 1
    /\ ~cf_srclist[1].corrupted /\ ~cf_srclist[2].corrupted
    /\ Len(image_info) = 3
    /\ image_info[2].wcs # image_info[3].wcs

\* ------------------------------------------- claims C12 - C14, C16, C19
\* C12 as claimed: when the compressor returns a nonzero status an error is
\* raised and the final path is left exactly as it was before the call.
C12_FinalPathKeptOnCompressorFailure ==
    [][(WriteMedsFile /\ variant = "db" /\ "fpack" \in faults) =>
          (mk_pc' = "failed" /\ mk_err' = "RuntimeError" /\ meds_file' = meds_file)]_vars

\* C13: the final stubby path changes only when all three extensions were
\* written, and then holds all three; when a write fails it keeps what it
\* held, so no reader finds a stubby file with only some extensions.
C13_ManifestAllOrNothing ==
    /\ [](stubby.exists => stubby.sections = 3)
    /\ [][WriteStubbyMeds =>
             IF SectionsWritten(faults) = 3
             THEN stubby' = [exists |-> TRUE, sections |-> 3,
                             obj |-> Content(obj_data, image_info)]
             ELSE stubby' = stubby /\ mk_pc' = "failed"]_vars

C13_Witness ==
    /\ mk_pc = "failed"
    /\ "write3" \in faults
    /\ Len(phases) = 5
    /\ stubby = OldFile

\* C14: on every exit of go(), a return or a raise, no staged temporary is
\* left: not the staged-out stubby file, not the staged-in copy of it, not
\* the uncompressed MEDS file, not the staged-out compressed file.
C14_NoTemporariesLeft ==
    mk_pc \in {"done", "failed"} => temps = {}

C14_Witness ==
    /\ mk_pc = "failed"
    /\ "fpack" \in faults
    /\ mk_err = "RuntimeError"
    /\ Len(phases) = 7
    /\ temps = {}

\* C16 as claimed: the connection is opened once per invocation and is
\* closed when the invocation ends, by a return or by a raise.
C16_ConnectionClosedAtEnd ==
    (mk_pc \in {"done", "failed"} /\ variant = "db" /\ do_inputs) =>
        conn.opens <= 1 /\ ~conn.open

\* C19: with do_inputs the stubby file is written only after query, catalog
\* read, image data, metadata and object data completed in that order; a
\* step that fails ends go() with no stubby file written and no MEDS step
\* started; with do_meds the MEDS file is built from what was loaded back
\* from the stubby file, and without do_meds no MEDS file is written.
C19_PhaseOrder ==
    variant = "db" =>
        LET full == (IF do_inputs
                     THEN <<"query", "cat", "image", "meta", "object", "stubby">>
                     ELSE <<>>) \o
                    (IF do_meds THEN <<"load", "meds">> ELSE <<>>)
        IN  /\ Len(phases) <= Len(full)
            /\ phases = SubSeq(full, 1, Len(phases))
            /\ (\A i \in DOMAIN phases : phases[i] # "stubby") => stubby \in {NoFile, OldFile}
            /\ (\A i \in DOMAIN phases : phases[i] # "meds") => meds_file \in {NoFile, OldFile}
            /\ (\E i \in DOMAIN phases : phases[i] = "meds") =>
                  /\ meds_file.exists
                  /\ meds_file.obj = stubby.obj
            /\ ~do_meds => meds_file \in {NoFile, OldFile}

C19_Witness ==
    /\ mk_pc = "done"
    /\ variant = "db"
    /\ do_inputs /\ do_meds
    /\ Len(phases) = 8
    /\ stubby \notin {NoFile, OldFile}
    /\ meds_file.obj = stubby.obj
    /\ Len(meds_file.obj.image_info) = 3

\* ---------------------------------------------------------------- claim C15
\* the CoaddSrc calls and the direct calls of _build_image_data
InitSources ==
    \/ Init
    \/ InitImage

NextSources == Next \/ NextImage

SpecSources == InitSources /\ [][NextSources]_vars

\* get_info returns the empty list when its query leaves no rows
C15_GetInfoEmpty ==
    (Queried /\ queried = <<>>) => (outcome = "returned" /\ ret = <<>>)

\* C15 as claimed: no records after filtering is not an error at any stage:
\* get_info returns an empty list, and _get_srclist accepts an empty
\* filtered source list.
C15_EmptyAcceptedEverywhere ==
    /\ C15_GetInfoEmpty
    /\ (mk_pc \in {"image_returned", "image_raised"} /\ Len(C11_SrcList) = 0) =>
          mk_pc = "image_returned"

\* C15, amended: get_info returns an empty list without raising when no
\* rows are left; DESMEDSMaker._get_srclist raises RuntimeError when no
\* source is left after the corrupted ones are removed, and
\* DESMEDSMakerDESDM._get_srclist accepts an empty list.
C15_EmptyAcceptedButByMaker ==
    /\ C15_GetInfoEmpty
    /\ (mk_pc \in {"image_returned", "image_raised"} /\ Len(C11_SrcList) = 0) =>
          IF variant = "db"
          THEN mk_pc = "image_raised" /\ mk_err = "RuntimeError" /\ image_info = <<>>
          ELSE mk_pc = "image_returned" /\ Len(image_info) = 1
    /\ (mk_pc = "image_raised") => Len(C11_SrcList) = 0

C15_Witness ==
    /\ mk_pc = "image_raised"
    /\ variant = "db"
    /\ Len(cf_srclist) = 2
    /\ mk_err = "RuntimeError"

\* ---------------------------------------------------------------- claim C21
\* C21: get_info runs query, sort and path derivation at most once per
\* instance on success: the list is cached only when all three steps went
\* through, every later call returns that list and runs no query, and when a
\* step fails nothing is cached and the next call starts from the query.
C21_CachedAfterSuccessOnly ==
    /\ [](pc = "ready" =>
            /\ cache.has =>
                  /\ nqueries = 1
                  /\ outcome = "returned"
                  /\ ret = cache.list
                  /\ AddFullPaths(sorted, piff_campaign).ok
                  /\ cache.list = AddFullPaths(sorted, piff_campaign).list
            /\ ~cache.has => (nqueries = ncalls /\ (ncalls > 0 => outcome = "raised")))
    /\ [][(pc = "ready" /\ ncalls' = ncalls + 1) =>
             IF cache.has
             THEN ret' = cache.list /\ cache' = cache /\ nqueries' = nqueries
             ELSE nqueries' = nqueries + 1]_vars

C21_Witness ==
    /\ pc = "ready"
    /\ ncalls = 2
    /\ nqueries = 1
    /\ cache.has
    /\ Len(ret) = 2

\* ---------------------------------------------------------------- claim C22
\* key is a key of self when _do_query fills in its template; tilename, band
\* and campaign are given at construction
C22_Defined(key) ==
    CASE key = "zp_table" -> zp_table # Unset
      [] key = "finalcut_campaign" -> finalcut_campaign # Unset
      [] OTHER -> TRUE

\* C22: for every campaign accepted at construction every key the selected
\* query template refers to is defined: the campaigns that select a template
\* referring to zp_table have zp_table set, and finalcut_campaign is set for
\* all of them.
C22_TemplateParamsDefined ==
    Queried =>
        /\ \A key \in TemplateParams(template) : C22_Defined(key)
        /\ finalcut_campaign # Unset
        /\ template \in {"_QUERY_COADD_SRC_BYTILE_DECADE",
                         "_QUERY_COADD_SRC_BYTILE_DELVE_DEEP"} => zp_table # Unset

C22_Witness ==
    /\ Queried
    /\ campaign = "NGC3109_COADD"
    /\ template = "_QUERY_COADD_SRC_BYTILE_DELVE_DEEP"
    /\ zp_table = "decade_refcat2_13_1"

\* ------------------------------------------------ maker: the DESDM file lists

\* lines of a file list
MaxLines == 2
\* characters of a line handed to _extract_ngwint_line directly
MaxChars == 5

\* A line of a file list is a sequence of characters; " " stands for any
\* whitespace, "3" for a digit and "a", "b" for the characters of a path.
Chars == {" ", "a", "b", "3"}

\* str.strip(): the line without its leading and trailing whitespace
RECURSIVE LStrip(_)
LStrip(line) ==
    IF line # <<>> /\ Head(line) = " " THEN LStrip(Tail(line)) ELSE line

RECURSIVE RStrip(_)
RStrip(line) ==
    IF line # <<>> /\ Last(line) = " " THEN RStrip(Front(line)) ELSE line

Strip(line) == LStrip(RStrip(line))

\* str.split(): the maximal runs of non-whitespace characters, in order
RECURSIVE SplitFrom(_, _, _)
SplitFrom(line, word, words) ==
    IF line = <<>>
    THEN IF word = <<>> THEN words ELSE Append(words, word)
    ELSE IF Head(line) = " "
         THEN SplitFrom(Tail(line), <<>>,
                        IF word = <<>> THEN words ELSE Append(words, word))
         ELSE SplitFrom(Tail(line), Append(word, Head(line)), words)

Split(line) == SplitFrom(line, <<>>, <<>>)

\* float(): a non-empty run of digits is a number, anything else raises
\* ValueError
IsFloat(word) == word # <<>> /\ \A i \in DOMAIN word : word[i] = "3"

RECURSIVE Float(_)
Float(word) == IF word = <<>> THEN 0 ELSE 10 * Float(Front(word)) + 3

NgwintNone == [ok |-> TRUE, none |-> TRUE, path |-> <<>>, magzp |-> 0, err |-> ""]

NgwintRaise(e) == [ok |-> FALSE, none |-> FALSE, path |-> <<>>, magzp |-> 0, err |-> e]

\* DESMEDSMakerDESDM._extract_ngwint_line. The message of the ValueError for
\* a wrong number of elements has two conversions, %d and %s, and is
\* formatted with the line alone, so that building it raises TypeError and
\* the ValueError is never raised.
ExtractNgwintLine(line) ==
    LET stripped == Strip(line)
        ls == Split(stripped)
    IN  IF stripped = <<>> THEN NgwintNone
        ELSE IF Len(ls) # 2 THEN NgwintRaise("TypeError")
        ELSE IF ~IsFloat(ls[2]) THEN NgwintRaise("ValueError")
        ELSE [ok |-> TRUE, none |-> FALSE, path |-> ls[1],
              magzp |-> Float(ls[2]), err |-> ""]

\* DESMEDSMakerDESDM._read_generic_flist: the stripped non-blank lines
ReadGenericFlist(lines) ==
    SelectSeq([i \in DOMAIN lines |-> Strip(lines[i])], LAMBDA l : l # <<>>)

\* the entry _load_ngwint_info makes for a line; the header is read from the
\* file the line names
NgwintSrc(sid, path, magzp) ==
    [id |-> sid, flags |-> 0, red_image |-> path, magzp |-> magzp,
     wcs_header |-> <<"hdr", path>>]

\* DESMEDSMakerDESDM._load_ngwint_info: the loop over the lines from line i
\* on, with the entries made so far
RECURSIVE LoadNgwintFrom(_, _, _, _)
LoadNgwintFrom(lines, i, sid, red_info) ==
    IF i > Len(lines) THEN [ok |-> TRUE, list |-> red_info, err |-> ""]
    ELSE LET e == ExtractNgwintLine(lines[i])
         IN  IF ~e.ok THEN [ok |-> FALSE, list |-> <<>>, err |-> e.err]
             ELSE IF e.none THEN LoadNgwintFrom(lines, i + 1, sid, red_info)
             ELSE LoadNgwintFrom(lines, i + 1, sid + 1,
                      Append(red_info, NgwintSrc(sid, e.path, e.magzp)))

LoadNgwintInfo(lines) == LoadNgwintFrom(lines, 1, 0, <<>>)

\* DESMEDSMakerDESDM._load_srclist
LoadSrcList(fl) ==
    LET srclist == LoadNgwintInfo(fl.ngwint)
        nepoch == Len(srclist.list)
        bkg_info == ReadGenericFlist(fl.bkg)
        seg_info == ReadGenericFlist(fl.seg)
    IN  IF ~srclist.ok THEN [ok |-> FALSE, val |-> <<>>, err |-> srclist.err]
        ELSE IF Len(bkg_info) # nepoch
        THEN [ok |-> FALSE, val |-> <<>>, err |-> "ValueError"]
        ELSE IF Len(seg_info) # nepoch
        THEN [ok |-> FALSE, val |-> <<>>, err |-> "ValueError"]
        ELSE [ok |-> TRUE,
              val |-> [i \in 1..nepoch |->
                         [id |-> srclist.list[i].id,
                          flags |-> srclist.list[i].flags,
                          red_image |-> srclist.list[i].red_image,
                          magzp |-> srclist.list[i].magzp,
                          wcs_header |-> srclist.list[i].wcs_header,
                          red_bkg |-> bkg_info[i],
                          red_seg |-> seg_info[i]]],
              err |-> ""]

\* the lines the file lists of a run are made of
NgwintLines ==
    {<<" ">>,
     <<"a", " ", "3">>,
     <<" ", "b", " ", " ", "3", "3", " ">>,
     <<"a">>,
     <<"a", " ", "b">>,
     <<"a", " ", "3", " ", "3">>}

BkgLines == {<<>>, <<"a">>, <<" ", "b">>}

SegLines == {<<" ">>, <<"b", " ">>}

\* the maker is idle but for the call on the file lists
FlistCaller ==
    /\ SrcIdle
    /\ variant = "desdm"
    /\ do_inputs = FALSE
    /\ do_meds = FALSE
    /\ conf = [min |-> 0, max |-> 0, allowed |-> <<>>]
    /\ cat_file = <<>>
    /\ coadd_cat = <<>>
    /\ lookup = <<>>
    /\ obj_data = NoObjData
    /\ stubby = NoFile
    /\ meds_file = NoFile
    /\ mk_err = ""
    /\ box_out = [ok |-> TRUE, sizes |-> <<>>, err |-> ""]
    /\ use_astro_refine = FALSE
    /\ cf_srclist = <<>>
    /\ image_info = <<>>
    /\ temps = {}
    /\ conn = NoConn
    /\ phases = <<>>
    /\ faults = {}
    /\ fl_out = [ok |-> TRUE, val |-> <<>>, err |-> ""]

\* a DESDM maker about to load its source list from three file lists
InitLoadSrclist ==
    /\ FlistCaller
    /\ mk_pc = "call_load_srclist"
    /\ flists \in [ngwint : SeqsUpTo(NgwintLines, MaxLines),
                   bkg : SeqsUpTo(BkgLines, MaxLines),
                   seg : SeqsUpTo(SegLines, MaxLines)]
    /\ line_in = <<>>

\* a DESDM maker about to take one line of the ngwint list apart
InitExtract ==
    /\ FlistCaller
    /\ mk_pc = "call_extract"
    /\ flists = [ngwint |-> <<>>, bkg |-> <<>>, seg |-> <<>>]
    /\ line_in \in SeqsUpTo(Chars, MaxChars)

InitFlist == InitLoadSrclist \/ InitExtract

LoadSrcListCall ==
    /\ mk_pc = "call_load_srclist"
    /\ fl_out' = LoadSrcList(flists)
    /\ mk_pc' = "load_srclist_done"
    /\ UNCHANGED <<mkin, coadd_cat, obj_data, stubby, meds_file, mk_err, box_out,
                   image_info, temps, conn, phases>>
    /\ UNCHANGED srcvars

ExtractNgwintLineCall ==
    /\ mk_pc = "call_extract"
    /\ fl_out' = LET e == ExtractNgwintLine(line_in)
                 IN  [ok |-> e.ok,
                      val |-> [none |-> e.none, path |-> e.path, magzp |-> e.magzp],
                      err |-> e.err]
    /\ mk_pc' = "extract_done"
    /\ UNCHANGED <<mkin, coadd_cat, obj_data, stubby, meds_file, mk_err, box_out,
                   image_info, temps, conn, phases>>
    /\ UNCHANGED srcvars

NextFlist == LoadSrcListCall \/ ExtractNgwintLineCall

SpecFlist == InitFlist /\ [][NextFlist]_vars

\* --------------------------------------------------------- claims C23 - C24
\* the lines of a file list that hold something other than whitespace
C23_NonBlank(lines) ==
    SelectSeq(lines, LAMBDA l : \E i \in DOMAIN l : l[i] # " ")

\* the whitespace-separated elements of a line: the positions where one starts
C24_Starts(line) ==
    {i \in DOMAIN line : line[i] # " " /\ (i = 1 \/ line[i - 1] = " ")}

\* C23: in the DESDM variant _load_srclist succeeds only if the bkg list and
\* the seg list each have exactly as many non-blank lines as the ngwint list
\* has entries; otherwise it fails with ValueError and returns no source
\* list; on success source i has id i (from 0, in file order, blank lines
\* skipped) and is paired with the i-th bkg path and the i-th seg path.
C23_LoadSrcListCounts ==
    mk_pc = "load_srclist_done" =>
        LET ngwint == C23_NonBlank(flists.ngwint)
            bkg == C23_NonBlank(flists.bkg)
            seg == C23_NonBlank(flists.seg)
            matching == Len(bkg) = Len(ngwint) /\ Len(seg) = Len(ngwint)
        IN  /\ fl_out.ok => matching
            /\ ~matching => /\ ~fl_out.ok
                            /\ fl_out.err = "ValueError"
                            /\ fl_out.val = <<>>
            /\ fl_out.ok =>
                 /\ Len(fl_out.val) = Len(ngwint)
                 /\ \A i \in DOMAIN fl_out.val :
                      /\ fl_out.val[i].id = i - 1
                      /\ fl_out.val[i].red_image = Split(ngwint[i])[1]
                      /\ fl_out.val[i].red_bkg = Strip(bkg[i])
                      /\ fl_out.val[i].red_seg = Strip(seg[i])

\* C24: _extract_ngwint_line returns (None, None) for a blank line, returns
\* (path, magzp) for a line with exactly two whitespace-separated elements,
\* and for a non-blank line with any other number of elements fails with a
\* ValueError (reporting the element count and the line).
C24_ExtractNgwintLine ==
    mk_pc = "extract_done" =>
        LET n == Cardinality(C24_Starts(line_in))
        IN  /\ n = 0 => fl_out.ok /\ fl_out.val.none
            /\ n = 2 => /\ fl_out.ok
                        /\ ~fl_out.val.none
                        /\ fl_out.val.path = Split(line_in)[1]
            /\ n \notin {0, 2} => ~fl_out.ok /\ fl_out.err = "ValueError"

====
